---- MODULE Spec2Model ----
(***************************************************************************)
(* Session lifecycle, session-scoped (temporary) content and the demo /    *)
(* ephemeral-account cleanup pipeline of the memri server.                 *)
(*                                                                         *)
(* The relational tables are modelled with their foreign keys as declared  *)
(* in shared/schema.ts: ON DELETE CASCADE where the schema says so, and    *)
(* the PostgreSQL default (NO ACTION: the statement is rejected) where the *)
(* schema gives no onDelete.  Every request handler is one atomic action   *)
(* taken at one instant `now`.  Time is counted in minutes.                *)
(***************************************************************************)
EXTENDS Integers, FiniteSets, Sequences, TLC

\* ---------------------------------------------------------------- bounds
MaxTime == 11
MaxSessionId == 2
MaxUserId == 3
MaxCollectionId == 7
MaxPhotoId == 2
MaxInvitationId == 2

\* ------------------------------------------------------ program constants
SESSION_DURATION == 10
SESSION_REFRESH_THRESHOLD == 2
TEMP_CONTENT_DURATION == 10
REFRESH_CONTENT_DURATION == 10
PROTECTED_COLLECTION_IDS == {1, 2, 3, 4, 6}
DEMO_USERNAME == <<"demo">>
DEMO_USER_PREFIX == "demo_"
\* SQL NULL / JavaScript null, undefined (ids are >= 1, timestamps >= 0)
NULL == -1

VARIABLES
    now,               \* wall clock (Date.now()), in minutes
    users,             \* users table:        id -> username
    sessions,          \* sessions table:     id -> [userId, username, expiresAt]
    collections,       \* collections table:  id -> [userId, isTemporary, sessionId, expiresAt]
    collectionOwners,  \* collection_owners:  set of <<collectionId, userId>>
    photos,            \* photos table:       id -> [collectionId, isTemporary, sessionId, expiresAt]
    comments,          \* comments table:     set of <<photoId, userId>>
    partnerships,      \* partnerships table: set of <<user1Id, user2Id>>
    invitations,       \* partnership_invitations: token -> [fromUserId, toUserId, status, expiresAt]
    nextInvitationId,  \* fresh invite tokens (crypto.randomBytes)
    accepting,         \* accept requests between their checks and their transaction
    refreshing,        \* getSession calls between their read and their auto-refresh write
    inviting,          \* createPartnershipInvitation calls between their checks and their insert
    retry,             \* the last withDatabaseRetry call: its operation, maxRetries and outcome
    blobs,             \* Firebase Storage:   ids of the photos whose file is stored
    timers,            \* pending setTimeout teardowns: [userId, sessionId, fireAt]
    nextSessionId,     \* fresh session ids (generateSessionId)
    nextUserId,        \* users.id serial
    nextCollectionId,  \* collections.id serial
    nextPhotoId,       \* photos.id serial
    client,            \* one browser tab: the AuthProvider's state, its cookie, its fetches
    resp               \* the last operation and what it returned

vars == <<now, users, sessions, collections, collectionOwners, photos, comments,
          partnerships, invitations, nextInvitationId, accepting, refreshing, inviting, retry, blobs, timers, nextSessionId, nextUserId, nextCollectionId,
          nextPhotoId, client, resp>>

\* The database (and blob store) as one value, so that storage statements
\* compose as the awaits of a handler do.
Cur ==
    [users |-> users, sessions |-> sessions, collections |-> collections,
     collectionOwners |-> collectionOwners, photos |-> photos,
     comments |-> comments, blobs |-> blobs, partnerships |-> partnerships,
     invitations |-> invitations, nextInvitationId |-> nextInvitationId]

Commit(D) ==
    /\ users' = D.users
    /\ sessions' = D.sessions
    /\ collections' = D.collections
    /\ collectionOwners' = D.collectionOwners
    /\ photos' = D.photos
    /\ comments' = D.comments
    /\ blobs' = D.blobs
    /\ partnerships' = D.partnerships
    /\ invitations' = D.invitations
    /\ nextInvitationId' = D.nextInvitationId

Restrict(f, S) == [x \in S |-> f[x]]

\* ------------------------------------------------------------ foreign keys
\* DELETE of the given rows.  Cascades: sessions.userId, collectionOwners.*,
\* collections.sessionId, photos.sessionId, comments.photoId, partnerships.*,
\* partnership_invitations.fromUserId / toUserId.  NO ACTION:
\* collections.userId, photos.collectionId, comments.userId; a row left
\* behind that still references a deleted row rejects the whole statement.
SqlDelete(D0, U0, S0, C0, P0) ==
    LET Rows(D, S, C, P) ==
            IF \/ \E p \in DOMAIN D.photos \ P : D.photos[p].collectionId \in C
               \/ \E c \in DOMAIN D.collections \ C : D.collections[c].userId \in U0
               \/ \E m \in D.comments : m[1] \notin P /\ m[2] \in U0
            THEN [ok |-> FALSE, db |-> D]
            ELSE [ok |-> TRUE,
                  db |-> [D EXCEPT
                      !.users = Restrict(D.users, DOMAIN D.users \ U0),
                      !.sessions = Restrict(D.sessions, DOMAIN D.sessions \ S),
                      !.collections = Restrict(D.collections, DOMAIN D.collections \ C),
                      !.collectionOwners =
                          {o \in D.collectionOwners : o[1] \notin C /\ o[2] \notin U0},
                      !.photos = Restrict(D.photos, DOMAIN D.photos \ P),
                      !.comments = {m \in D.comments : m[1] \notin P},
                      !.partnerships =
                          {q \in D.partnerships : q[1] \notin U0 /\ q[2] \notin U0},
                      !.invitations =
                          Restrict(D.invitations,
                                   {i \in DOMAIN D.invitations :
                                       /\ D.invitations[i].fromUserId \notin U0
                                       /\ D.invitations[i].toUserId \notin U0})]]
        \* each set is computed once and then used: D, the sessions, the
        \* collections and the photos the statement removes
        Cascade(D, S) ==
            CHOOSE r \in
                {Rows(D, S, C, P) :
                    C \in {C0 \cup {c \in DOMAIN D.collections :
                                       D.collections[c].sessionId \in S}},
                    P \in {P0 \cup {p \in DOMAIN D.photos :
                                       D.photos[p].sessionId \in S}}} : TRUE
        Sessions(D) ==
            CHOOSE r \in
                {Cascade(D, S) :
                    S \in {S0 \cup {s \in DOMAIN D.sessions :
                                       D.sessions[s].userId \in U0}}} : TRUE
    IN  CHOOSE r \in {Sessions(D) : D \in {D0}} : TRUE

DeleteUsers(D, U) == SqlDelete(D, U, {}, {}, {})
DeleteSessions(D, S) == SqlDelete(D, {}, S, {}, {})
DeleteCollections(D, C) == SqlDelete(D, {}, {}, C, {})
DeletePhotos(D, P) == SqlDelete(D, {}, {}, {}, P)

\* a statement that did not throw
Ok(D) == [ok |-> TRUE, db |-> D]

\* SQL lt() on a nullable timestamp: NULL compares as unknown, never true
SqlLt(a, b) == a # NULL /\ a < b

\* --------------------------------------------------- DemoCleanupService
\* Firebase deletes are best effort and never throw (photo-model.ts)
deletePhotoFromFirebaseStorage(D, p) == [D EXCEPT !.blobs = @ \ {p}]

PhotosIn(D, collectionIds) ==
    {p \in DOMAIN D.photos : D.photos[p].collectionId \in collectionIds}

cleanupPhotosFromFirebaseStorage(D, collectionIds) ==
    Ok([D EXCEPT !.blobs = @ \ PhotosIn(D, collectionIds)])

cleanupPhotosFromDatabase(D, collectionIds) ==
    DeletePhotos(D, PhotosIn(D, collectionIds))

cleanupCollectionOwnerships(D, collectionIds) ==
    Ok([D EXCEPT !.collectionOwners = {o \in @ : o[1] \notin collectionIds}])

cleanupCollectionsFromDatabase(D, collectionIds) ==
    DeleteCollections(D, DOMAIN D.collections \cap collectionIds)

\* the four steps, each awaited before the next; a throw skips the rest
\* (r.ok = FALSE: the statement threw and changed nothing)
CleanupSteps(D, collectionIds) ==
    LET step2(r) == IF r.ok THEN cleanupPhotosFromDatabase(r.db, collectionIds) ELSE r
        step3(r) == IF r.ok THEN cleanupCollectionOwnerships(r.db, collectionIds) ELSE r
        step4(r) == IF r.ok THEN cleanupCollectionsFromDatabase(r.db, collectionIds) ELSE r
    IN  step4(step3(step2(cleanupPhotosFromFirebaseStorage(D, collectionIds))))

\* the four steps with the ownership rows deleted first (the faulty order
\* the step-order property must tell apart)
CleanupStepsOwnershipsFirst(D, collectionIds, k) ==
    LET step1(r) == IF k >= 1 THEN cleanupCollectionOwnerships(r.db, collectionIds)
                    ELSE r
        step2(r) == IF r.ok /\ k >= 2 THEN cleanupPhotosFromFirebaseStorage(r.db, collectionIds)
                    ELSE r
        step3(r) == IF r.ok /\ k >= 3 THEN cleanupPhotosFromDatabase(r.db, collectionIds)
                    ELSE r
        step4(r) == IF r.ok /\ k >= 4 THEN cleanupCollectionsFromDatabase(r.db, collectionIds)
                    ELSE r
    IN  step4(step3(step2(step1(Ok(D)))))

\* what the four steps leave when the process stops after the k-th of them
CleanupStepsInterrupted(D, collectionIds, k) ==
    LET step1(r) == IF k >= 1 THEN cleanupPhotosFromFirebaseStorage(r.db, collectionIds)
                    ELSE r
        step2(r) == IF r.ok /\ k >= 2 THEN cleanupPhotosFromDatabase(r.db, collectionIds)
                    ELSE r
        step3(r) == IF r.ok /\ k >= 3 THEN cleanupCollectionOwnerships(r.db, collectionIds)
                    ELSE r
        step4(r) == IF r.ok /\ k >= 4 THEN cleanupCollectionsFromDatabase(r.db, collectionIds)
                    ELSE r
    IN  step4(step3(step2(step1(Ok(D)))))

OwnedBy(D, userId) ==
    {c \in DOMAIN D.collections : <<c, userId>> \in D.collectionOwners}

\* a cleanup without the notInArray(PROTECTED_COLLECTION_IDS) filter (the
\* faulty variant the protection property must tell apart)
cleanupEveryOwnedCollection(D, demoUserId) ==
    LET collectionIds == OwnedBy(D, demoUserId)
    IN  IF collectionIds = {} THEN Ok(D) ELSE CleanupSteps(D, collectionIds)

cleanupDemoCollectionsAndPhotos(D, demoUserId) ==
    LET collectionIds == OwnedBy(D, demoUserId) \ PROTECTED_COLLECTION_IDS
    IN  IF collectionIds = {} THEN Ok(D) ELSE CleanupSteps(D, collectionIds)

\* cleanupDemoCollectionsAndPhotos stopped after the k-th step
cleanupDemoCollectionsAndPhotosInterrupted(D, demoUserId, k) ==
    LET collectionIds == OwnedBy(D, demoUserId) \ PROTECTED_COLLECTION_IDS
    IN  IF collectionIds = {} THEN D ELSE CleanupStepsInterrupted(D, collectionIds, k).db

\* errors are caught and logged: the caller continues from the state reached
cleanupDemoUserContent(D) ==
    LET demoUser == {u \in DOMAIN D.users : D.users[u] = DEMO_USERNAME}
    IN  IF demoUser = {} THEN D
        ELSE cleanupDemoCollectionsAndPhotos(D, CHOOSE u \in demoUser : TRUE).db

\* a session cleanup without the username === DEMO_USERNAME test (the faulty
\* variant the frame property of a regular session's deletion must tell apart)
cleanupContentForAnySession(D, sessionId) ==
    IF sessionId \notin DOMAIN D.sessions THEN D
    ELSE cleanupDemoCollectionsAndPhotos(D, D.sessions[sessionId].userId).db

cleanupDemoUserContentForSession(D, sessionId) ==
    LET sessionData ==
            {s \in DOMAIN D.sessions : s = sessionId /\ D.sessions[s].userId \in DOMAIN D.users}
    IN  IF sessionData = {} THEN D
        ELSE LET userId == D.sessions[sessionId].userId
             IN  IF D.users[userId] # DEMO_USERNAME THEN D
                 ELSE cleanupDemoCollectionsAndPhotos(D, userId).db

\* ------------------------------------------------------ DemoUserService
isTemporaryDemoUser(username) == username[1] = DEMO_USER_PREFIX

cleanupUserCollectionsAndPhotos(D, userId) ==
    LET nonProtectedCollections == OwnedBy(D, userId) \ PROTECTED_COLLECTION_IDS
    IN  IF nonProtectedCollections # {}
        THEN CleanupSteps(D, nonProtectedCollections).db
        ELSE D

removeProtectedCollectionOwnerships(D, userId) ==
    [D EXCEPT !.collectionOwners =
        {o \in @ : ~(o[2] = userId /\ o[1] \in PROTECTED_COLLECTION_IDS)}]

cleanupTemporaryDemoUser(D, userId, sessionId) ==
    LET step3(X) == IF sessionId # NULL THEN DeleteSessions(X, {sessionId}).db ELSE X
        step4(X) == DeleteUsers(X, DOMAIN X.users \cap {userId}).db
    IN  step4(step3(removeProtectedCollectionOwnerships(
                        cleanupUserCollectionsAndPhotos(D, userId), userId)))

\* cleanupTemporaryDemoUser stopped after the k-th of its statements: the
\* four content steps, the protected ownership rows, the session row, the
\* account row
cleanupTemporaryDemoUserInterrupted(D, userId, sessionId, k) ==
    LET nonProtectedCollections == OwnedBy(D, userId) \ PROTECTED_COLLECTION_IDS
        step5(X) == IF k >= 5 THEN removeProtectedCollectionOwnerships(X, userId) ELSE X
        step6(X) == IF k >= 6 /\ sessionId # NULL
                    THEN DeleteSessions(X, {sessionId}).db ELSE X
        step7(X) == IF k >= 7 THEN DeleteUsers(X, DOMAIN X.users \cap {userId}).db ELSE X
    IN  step7(step6(step5(IF nonProtectedCollections # {}
                          THEN CleanupStepsInterrupted(D, nonProtectedCollections, k).db
                          ELSE D)))

\* ------------------------------------------------- DatabaseSessionStore
\* insert ... onConflictDoUpdate; sessions.userId must reference a user
StoreSet(D, sessionId, userId, username, expiresAt) ==
    IF userId \notin DOMAIN D.users
    THEN [ok |-> FALSE, db |-> D]
    ELSE Ok([D EXCEPT !.sessions =
                [s \in DOMAIN D.sessions \cup {sessionId} |->
                    IF s = sessionId
                    THEN [userId |-> userId, username |-> username,
                          expiresAt |-> expiresAt]
                    ELSE D.sessions[s]]])

StoreDelete(D, sessionId) ==
    IF sessionId \in DOMAIN D.sessions
    THEN LET userId == D.sessions[sessionId].userId
             username == D.sessions[sessionId].username
         IN  IF isTemporaryDemoUser(username)
             THEN cleanupTemporaryDemoUser(D, userId, sessionId)
             ELSE DeleteSessions(cleanupDemoUserContentForSession(D, sessionId),
                                 {sessionId}).db
    ELSE D

NoSession == [found |-> FALSE, userId |-> NULL, username |-> <<>>, expiresAt |-> NULL]

\* returns [db, session]
StoreGet(D, t, sessionId) ==
    IF sessionId \notin DOMAIN D.sessions
    THEN [db |-> D, session |-> NoSession]
    ELSE LET session == D.sessions[sessionId]
         IN  IF session.expiresAt < t
             THEN [db |-> StoreDelete(D, sessionId), session |-> NoSession]
             ELSE [db |-> D,
                   session |-> [found |-> TRUE, userId |-> session.userId,
                                username |-> session.username,
                                expiresAt |-> session.expiresAt]]

StoreCleanExpiredSessions(D, t) ==
    DeleteSessions(D, {s \in DOMAIN D.sessions : D.sessions[s].expiresAt < t}).db

\* ------------------------------------------------ TemporalStorageService
cleanExpiredTemporaryContent(D, t) ==
    LET expiredPhotos ==
            {p \in DOMAIN D.photos :
                D.photos[p].isTemporary /\ SqlLt(D.photos[p].expiresAt, t)}
        expiredCollections ==
            {c \in DOMAIN D.collections :
                D.collections[c].isTemporary /\ SqlLt(D.collections[c].expiresAt, t)}
        step3(r) == IF r.ok THEN DeleteCollections(r.db, expiredCollections) ELSE r
    IN  step3(DeletePhotos([D EXCEPT !.blobs = @ \ expiredPhotos], expiredPhotos)).db

TemporaryPhotosOf(D, sessionId) ==
    {p \in DOMAIN D.photos :
        D.photos[p].isTemporary /\ D.photos[p].sessionId = sessionId}

TemporaryCollectionsOf(D, sessionId) ==
    {c \in DOMAIN D.collections :
        D.collections[c].isTemporary /\ D.collections[c].sessionId = sessionId}

\* the flag cleared while sessionId and expiresAt stay (the faulty variant
\* the make-permanent property must tell apart)
clearTemporaryFlagOnly(D, collectionId) ==
    IF collectionId \in DOMAIN D.collections
    THEN [ok |-> TRUE,
          db |-> [D EXCEPT !.collections[collectionId].isTemporary = FALSE]]
    ELSE [ok |-> FALSE, db |-> D]

\* UPDATE ... WHERE id = collectionId RETURNING: true iff a row was updated
makeCollectionPermanent(D, collectionId) ==
    IF collectionId \in DOMAIN D.collections
    THEN [ok |-> TRUE,
          db |-> [D EXCEPT !.collections[collectionId] =
                      [@ EXCEPT !.isTemporary = FALSE, !.sessionId = NULL,
                                !.expiresAt = NULL]]]
    ELSE [ok |-> FALSE, db |-> D]

makePhotoPermanent(D, photoId) ==
    IF photoId \in DOMAIN D.photos
    THEN [ok |-> TRUE,
          db |-> [D EXCEPT !.photos[photoId] =
                      [@ EXCEPT !.isTemporary = FALSE, !.sessionId = NULL,
                                !.expiresAt = NULL]]]
    ELSE [ok |-> FALSE, db |-> D]

\* the two SELECTs: the rows with isTemporary = true and this sessionId
getTemporaryContentBySession(D, sessionId) ==
    [collections |-> Restrict(D.collections, TemporaryCollectionsOf(D, sessionId)),
     photos |-> Restrict(D.photos, TemporaryPhotosOf(D, sessionId))]

\* every temporary row extended, whatever its session (the faulty variant
\* the extension property must tell apart)
extendEveryTemporaryRow(D, sessionId, newExpirationTime) ==
    [D EXCEPT
        !.collections =
            [c \in DOMAIN @ |->
                IF @[c].isTemporary
                THEN [@[c] EXCEPT !.expiresAt = newExpirationTime] ELSE @[c]],
        !.photos =
            [p \in DOMAIN @ |->
                IF @[p].isTemporary
                THEN [@[p] EXCEPT !.expiresAt = newExpirationTime] ELSE @[p]]]

extendTemporaryContentExpiration(D, sessionId, newExpirationTime) ==
    [D EXCEPT
        !.collections =
            [c \in DOMAIN @ |->
                IF c \in TemporaryCollectionsOf(D, sessionId)
                THEN [@[c] EXCEPT !.expiresAt = newExpirationTime] ELSE @[c]],
        !.photos =
            [p \in DOMAIN @ |->
                IF p \in TemporaryPhotosOf(D, sessionId)
                THEN [@[p] EXCEPT !.expiresAt = newExpirationTime] ELSE @[p]]]

deleteTemporaryContentForSession(D, sessionId) ==
    LET sessionPhotos == TemporaryPhotosOf(D, sessionId)
        step3(r) == IF r.ok
                    THEN DeleteCollections(r.db, TemporaryCollectionsOf(r.db, sessionId))
                    ELSE r
    IN  step3(DeletePhotos([D EXCEPT !.blobs = @ \ sessionPhotos], sessionPhotos)).db

\* ------------------------------------------------------------ AuthService
createSession(D, sessionId, userId, username, t) ==
    StoreSet(D, sessionId, userId, username, t + SESSION_DURATION)

\* a read that never touches the expiry (the faulty variant the renewal
\* property must tell apart from getSession)
getSessionNoRenew(D, t, sessionId) == StoreGet(D, t, sessionId)

\* returns [db, session]
getSession(D, t, sessionId) ==
    LET touch(g) ==
            IF ~g.session.found THEN g
            ELSE LET timeUntilExpiry == g.session.expiresAt - t
                 IN  IF timeUntilExpiry < SESSION_REFRESH_THRESHOLD
                     THEN [db |-> StoreSet(g.db, sessionId, g.session.userId,
                                           g.session.username, t + SESSION_DURATION).db,
                           session |-> [g.session EXCEPT
                                            !.expiresAt = t + SESSION_DURATION]]
                     ELSE g
    IN  touch(StoreGet(D, t, sessionId))

AuthCleanExpiredSessions(D, t) ==
    StoreCleanExpiredSessions(cleanExpiredTemporaryContent(D, t), t)

logout(D, sessionId) ==
    StoreDelete(deleteTemporaryContentForSession(D, sessionId), sessionId)

\* requireAuth taking the stored row as it is, whatever its expiry (a
\* faulty variant the 401 property must tell apart)
requireAuthIgnoringExpiry(D, t, sessionId) ==
    IF sessionId \in DOMAIN D.sessions
    THEN [db |-> D, status |-> 200,
          session |-> [found |-> TRUE, userId |-> D.sessions[sessionId].userId,
                       username |-> D.sessions[sessionId].username,
                       expiresAt |-> D.sessions[sessionId].expiresAt]]
    ELSE [db |-> D, status |-> 401, session |-> NoSession]

\* AuthController.requireAuth: returns [db, status, session]; sessionId is
\* NULL when the request carries neither header nor cookie
requireAuth(D, t, sessionId) ==
    LET attach(g) ==
            IF ~g.session.found THEN [db |-> g.db, status |-> 401, session |-> g.session]
            ELSE IF g.session.userId \in DOMAIN g.db.users
                 THEN [db |-> g.db, status |-> 200, session |-> g.session]
                 ELSE [db |-> g.db, status |-> 401, session |-> g.session]
    IN  IF sessionId = NULL
        THEN [db |-> D, status |-> 401, session |-> NoSession]
        ELSE attach(getSession(D, t, sessionId))

\* --------------------------------------- the session store under a fault
\* storageError: the store's database statement throws
\* DatabaseSessionStore.set: logs and rethrows, nothing is written
StoreSetE(D, sessionId, userId, username, expiresAt, storageError) ==
    IF storageError THEN [ok |-> FALSE, db |-> D]
    ELSE StoreSet(D, sessionId, userId, username, expiresAt)

\* DatabaseSessionStore.get: the catch reports the session absent
StoreGetE(D, t, sessionId, storageError) ==
    IF storageError THEN [db |-> D, session |-> NoSession]
    ELSE StoreGet(D, t, sessionId)

createSessionE(D, sessionId, userId, username, t, storageError) ==
    StoreSetE(D, sessionId, userId, username, t + SESSION_DURATION, storageError)

getSessionE(D, t, sessionId, storageError) ==
    IF StoreGetE(D, t, sessionId, storageError).session.found
    THEN getSession(D, t, sessionId)
    ELSE StoreGetE(D, t, sessionId, storageError)

requireAuthE(D, t, sessionId, storageError) ==
    IF sessionId = NULL THEN [db |-> D, status |-> 401, session |-> NoSession]
    ELSE IF getSessionE(D, t, sessionId, storageError).session.found
    THEN requireAuth(D, t, sessionId)
    ELSE [db |-> getSessionE(D, t, sessionId, storageError).db, status |-> 401,
          session |-> NoSession]

\* a login that hands out the generated id whether or not the row was
\* stored (a faulty variant the fail-closed property must tell apart)
loginHandingOutTheId(D, sessionId, userId, t, storageError) ==
    [db |-> createSessionE(D, sessionId, userId, D.users[userId], t, storageError).db,
     sessionId |-> sessionId]

\* AuthService.login with valid credentials of userId: returns
\* [db, sessionId]; sessionId = NULL: login returned null
login(D, sessionId, userId, t, storageError) ==
    IF createSessionE(D, sessionId, userId, D.users[userId], t, storageError).ok
    THEN [db |-> createSessionE(D, sessionId, userId, D.users[userId], t,
                                storageError).db,
          sessionId |-> sessionId]
    ELSE [db |-> D, sessionId |-> NULL]

\* grantAccessToProtectedCollections: nothing is granted unless the first
\* protected id exists; then one ownership row per existing protected id
FirstProtectedCollectionId == 1

grantAccessToProtectedCollections(D, userId) ==
    IF FirstProtectedCollectionId \notin DOMAIN D.collections THEN D
    ELSE [D EXCEPT !.collectionOwners =
            @ \cup {<<c, userId>> : c \in PROTECTED_COLLECTION_IDS \cap DOMAIN D.collections}]

RECURSIVE CleanupEach(_, _)
CleanupEach(D, todo) ==
    IF todo = {} THEN D
    ELSE LET u == CHOOSE x \in todo : \A y \in todo : x <= y
         IN  CleanupEach(cleanupTemporaryDemoUser(D, u, NULL), todo \ {u})

\* the "active session" test compares expiresAt for equality with new Date()
cleanupExpiredDemoUsers(D, t) ==
    LET demoUsers == {u \in DOMAIN D.users : isTemporaryDemoUser(D.users[u])}
        activeSessions(u) ==
            {s \in DOMAIN D.sessions :
                D.sessions[s].userId = u /\ D.sessions[s].expiresAt = t}
    IN  CleanupEach(D, {u \in demoUsers : activeSessions(u) = {}})

\* ------------------------------------ cleanup entry points under faults
\* F: the photos whose blob delete fails.  dbDown: the database cannot be
\* reached and the first statement throws.  An entry point returns
\* [escaped, db]: whether an error reached its caller, and the state left.

\* deletePhotoFromFirebaseStorage with the bucket call failing or not: the
\* error is caught and logged, the blob stays
deletePhotoFromFirebaseStorageE(D, p, fails) ==
    IF fails THEN D ELSE [D EXCEPT !.blobs = @ \ {p}]

\* a loop that stops at the first blob delete that fails and throws (the
\* faulty variant the blob-failure property must tell apart)
BlobDeletesAbortingOnFailure(D, P, F) ==
    IF P \cap F # {} THEN [ok |-> FALSE, db |-> D]
    ELSE Ok([D EXCEPT !.blobs = @ \ P])

\* for (const photo of P) { try { await deletePhotoFromFirebaseStorage }
\* catch { log } }, the deletes of the photos in F failing
BlobDeletes(D, P, F) ==
    LET RECURSIVE loop(_, _)
        loop(X, Q) ==
            IF Q = {} THEN X
            ELSE LET p == CHOOSE q \in Q : TRUE
                 IN  loop(deletePhotoFromFirebaseStorageE(X, p, p \in F), Q \ {p})
    IN  Ok(loop(D, P))

\* returns [ok, db]
CleanupStepsE(D, collectionIds, F) ==
    LET step2(r) == IF r.ok THEN cleanupPhotosFromDatabase(r.db, collectionIds) ELSE r
        step3(r) == IF r.ok THEN cleanupCollectionOwnerships(r.db, collectionIds) ELSE r
        step4(r) == IF r.ok THEN cleanupCollectionsFromDatabase(r.db, collectionIds) ELSE r
    IN  step4(step3(step2(BlobDeletes(D, PhotosIn(D, collectionIds), F))))

\* catch (error) { console.error(...); throw error } (the faulty variant
\* the no-escape property must tell apart)
RethrowToCaller(r) == [escaped |-> ~r.ok, db |-> r.db]

\* try { ... } catch (error) { console.error(...) } around the whole body
\* of an entry point; r: what the body did, [ok, db]
LogAndReturn(r) == [escaped |-> FALSE, db |-> r.db]

cleanExpiredTemporaryContentE(D, t, F, dbDown) ==
    LET expiredPhotos ==
            {p \in DOMAIN D.photos :
                D.photos[p].isTemporary /\ SqlLt(D.photos[p].expiresAt, t)}
        expiredCollections ==
            {c \in DOMAIN D.collections :
                D.collections[c].isTemporary /\ SqlLt(D.collections[c].expiresAt, t)}
        step2(r) == IF r.ok THEN DeletePhotos(r.db, expiredPhotos) ELSE r
        step3(r) == IF r.ok THEN DeleteCollections(r.db, expiredCollections) ELSE r
    IN  LogAndReturn(IF dbDown THEN [ok |-> FALSE, db |-> D]
                     ELSE step3(step2(BlobDeletes(D, expiredPhotos, F))))

deleteTemporaryContentForSessionE(D, sessionId, F, dbDown) ==
    LET sessionPhotos == TemporaryPhotosOf(D, sessionId)
        step2(r) == IF r.ok THEN DeletePhotos(r.db, sessionPhotos) ELSE r
        step3(r) == IF r.ok
                    THEN DeleteCollections(r.db, TemporaryCollectionsOf(r.db, sessionId))
                    ELSE r
    IN  LogAndReturn(IF dbDown THEN [ok |-> FALSE, db |-> D]
                     ELSE step3(step2(BlobDeletes(D, sessionPhotos, F))))

extendTemporaryContentExpirationE(D, sessionId, newExpirationTime, dbDown) ==
    LogAndReturn(IF dbDown THEN [ok |-> FALSE, db |-> D]
                 ELSE Ok(extendTemporaryContentExpiration(D, sessionId, newExpirationTime)))

cleanupDemoUserContentE(D, F, dbDown) ==
    LET demoUser == {u \in DOMAIN D.users : D.users[u] = DEMO_USERNAME}
        collectionIds ==
            OwnedBy(D, CHOOSE u \in demoUser : TRUE) \ PROTECTED_COLLECTION_IDS
    IN  LogAndReturn(IF dbDown THEN [ok |-> FALSE, db |-> D]
                     ELSE IF demoUser = {} \/ collectionIds = {} THEN Ok(D)
                     ELSE CleanupStepsE(D, collectionIds, F))

cleanupDemoUserContentForSessionE(D, sessionId, F, dbDown) ==
    LET sessionData ==
            {s \in DOMAIN D.sessions : s = sessionId /\ D.sessions[s].userId \in DOMAIN D.users}
        userId == D.sessions[sessionId].userId
        collectionIds == OwnedBy(D, userId) \ PROTECTED_COLLECTION_IDS
    IN  LogAndReturn(IF dbDown THEN [ok |-> FALSE, db |-> D]
                     ELSE IF sessionData = {} THEN Ok(D)
                     ELSE IF D.users[userId] # DEMO_USERNAME \/ collectionIds = {} THEN Ok(D)
                     ELSE CleanupStepsE(D, collectionIds, F))

\* cleanupUserCollectionsAndPhotos and the session delete catch their own
\* errors; the account delete is the last statement
cleanupTemporaryDemoUserE(D, userId, sessionId, F, dbDown) ==
    LET nonProtectedCollections == OwnedBy(D, userId) \ PROTECTED_COLLECTION_IDS
        X1 == IF nonProtectedCollections # {}
              THEN CleanupStepsE(D, nonProtectedCollections, F).db ELSE D
        X2 == removeProtectedCollectionOwnerships(X1, userId)
        X3 == IF sessionId # NULL THEN DeleteSessions(X2, {sessionId}).db ELSE X2
    IN  LogAndReturn(IF dbDown THEN [ok |-> FALSE, db |-> D]
                     ELSE DeleteUsers(X3, DOMAIN X3.users \cap {userId}))

cleanupExpiredDemoUsersE(D, t, F, dbDown) ==
    LET demoUsers == {u \in DOMAIN D.users : isTemporaryDemoUser(D.users[u])}
        activeSessions(u) ==
            {s \in DOMAIN D.sessions :
                D.sessions[s].userId = u /\ D.sessions[s].expiresAt = t}
        RECURSIVE each(_, _)
        each(X, todo) ==
            IF todo = {} THEN X
            ELSE LET u == CHOOSE x \in todo : \A y \in todo : x <= y
                 IN  each(cleanupTemporaryDemoUserE(X, u, NULL, F, FALSE).db, todo \ {u})
    IN  LogAndReturn(IF dbDown THEN [ok |-> FALSE, db |-> D]
                     ELSE Ok(each(D, {u \in demoUsers : activeSessions(u) = {}})))

\* AuthService.cleanExpiredSessions awaits the content sweep, then the
\* store's cleanExpiredSessions, which has a try/catch of its own
cleanExpiredSessionsE(D, t, F, dbDown) ==
    LET a == cleanExpiredTemporaryContentE(D, t, F, dbDown)
        b == LogAndReturn(
                 IF dbDown THEN [ok |-> FALSE, db |-> a.db]
                 ELSE DeleteSessions(a.db, {s \in DOMAIN a.db.sessions :
                                               a.db.sessions[s].expiresAt < t}))
    IN  IF a.escaped THEN a ELSE b

\* ------------------------------------------------------ partnership-model
\* 7 days, longer than any session lives
INVITATION_DURATION == 20

hasPartner(D, userId) ==
    \E q \in D.partnerships : q[1] = userId \/ q[2] = userId

\* the partner's id, from any one of the matching rows (LIMIT 1 without
\* ORDER BY); {NULL} when there is no row
getUserPartner(D, userId) ==
    LET rows == {q \in D.partnerships : q[1] = userId \/ q[2] = userId}
    IN  IF rows = {} THEN {NULL}
        ELSE {IF (IF q[1] = userId THEN q[2] ELSE q[1]) \in DOMAIN D.users
              THEN (IF q[1] = userId THEN q[2] ELSE q[1]) ELSE NULL : q \in rows}

\* returns [ok, db]; ok = FALSE: the call threw
createPartnershipInvitation(D, t, fromUserId) ==
    IF hasPartner(D, fromUserId) THEN [ok |-> FALSE, db |-> D]
    ELSE IF \E i \in DOMAIN D.invitations :
                /\ D.invitations[i].fromUserId = fromUserId
                /\ D.invitations[i].status = "pending"
    THEN [ok |-> FALSE, db |-> D]
    ELSE IF fromUserId \notin DOMAIN D.users THEN [ok |-> FALSE, db |-> D]
    ELSE Ok([D EXCEPT
                !.invitations =
                    (D.nextInvitationId :>
                        [fromUserId |-> fromUserId, toUserId |-> NULL,
                         status |-> "pending",
                         expiresAt |-> t + INVITATION_DURATION]) @@ @,
                !.nextInvitationId = @ + 1])

getInvitationByToken(D, token) ==
    IF token \in DOMAIN D.invitations
    THEN IF D.invitations[token].fromUserId \in DOMAIN D.users
         THEN {D.invitations[token]} ELSE {}
    ELSE {}

\* the checks without the hasPartner test (a faulty variant the refusal
\* property must tell apart)
acceptChecksWithoutPartnerTest(D, t, token, acceptingUserId) ==
    /\ getInvitationByToken(D, token) # {}
    /\ D.invitations[token].status = "pending"
    /\ ~(t > D.invitations[token].expiresAt)
    /\ D.invitations[token].fromUserId # acceptingUserId

\* the checks of acceptPartnershipInvitation, up to the transaction
acceptChecks(D, t, token, acceptingUserId) ==
    /\ getInvitationByToken(D, token) # {}
    /\ D.invitations[token].status = "pending"
    /\ ~(t > D.invitations[token].expiresAt)
    /\ D.invitations[token].fromUserId # acceptingUserId
    /\ ~hasPartner(D, D.invitations[token].fromUserId)
    /\ ~hasPartner(D, acceptingUserId)

addPartnerToExistingCollections(D, ownerId, partnerId) ==
    [D EXCEPT !.collectionOwners =
        @ \cup {<<o[1], partnerId>> : o \in {x \in @ : x[2] = ownerId}}]

\* db.transaction: the partnership row (unique on user1Id, unique on
\* user2Id, both referencing users), the invitation update, the ownership
\* rows; a rejected statement rolls everything back.  returns [ok, db]
acceptTransaction(D, token, fromUserId, acceptingUserId) ==
    LET user1Id == IF fromUserId < acceptingUserId THEN fromUserId ELSE acceptingUserId
        user2Id == IF fromUserId < acceptingUserId THEN acceptingUserId ELSE fromUserId
    IN  IF \/ \E q \in D.partnerships : q[1] = user1Id \/ q[2] = user2Id
           \/ fromUserId \notin DOMAIN D.users
           \/ acceptingUserId \notin DOMAIN D.users
        THEN [ok |-> FALSE, db |-> D]
        ELSE Ok(addPartnerToExistingCollections(
                    addPartnerToExistingCollections(
                        [D EXCEPT
                            !.partnerships = @ \cup {<<user1Id, user2Id>>},
                            !.invitations =
                                [i \in DOMAIN @ |->
                                    IF i = token
                                    THEN [@[i] EXCEPT !.status = "accepted",
                                                      !.toUserId = acceptingUserId]
                                    ELSE @[i]]],
                        fromUserId, acceptingUserId),
                    acceptingUserId, fromUserId))

\* one call with nothing running between its checks and its transaction
acceptPartnershipInvitation(D, t, token, acceptingUserId) ==
    IF acceptChecks(D, t, token, acceptingUserId)
    THEN acceptTransaction(D, token, D.invitations[token].fromUserId, acceptingUserId)
    ELSE [ok |-> FALSE, db |-> D]

rejectPartnershipInvitation(D, token) ==
    IF getInvitationByToken(D, token) = {} THEN [ok |-> FALSE, db |-> D]
    ELSE IF D.invitations[token].status # "pending" THEN [ok |-> FALSE, db |-> D]
    ELSE Ok([D EXCEPT !.invitations[token].status = "rejected"])

cancelPartnershipInvitation(D, token, userId) ==
    IF token \notin DOMAIN D.invitations THEN [ok |-> FALSE, db |-> D]
    ELSE IF D.invitations[token].fromUserId # userId THEN [ok |-> FALSE, db |-> D]
    ELSE IF D.invitations[token].status # "pending" THEN [ok |-> FALSE, db |-> D]
    ELSE Ok([D EXCEPT !.invitations = Restrict(@, DOMAIN @ \ {token})])

\* row: the one the SELECT ... LIMIT 1 returned
removePartnership(D, userId, row) ==
    [D EXCEPT !.partnerships = @ \ {row}]

\* ------------------------------------------------------- collection-model
\* partner: what getUserPartner(userId) returned (NULL: no partner)
createCollection(D, id, userId, isTemporary, sessionId, expiresAt, partner) ==
    [D EXCEPT
        !.collections =
            [c \in DOMAIN @ \cup {id} |->
                IF c = id
                THEN [userId |-> userId, isTemporary |-> isTemporary,
                      sessionId |-> sessionId, expiresAt |-> expiresAt]
                ELSE @[c]],
        !.collectionOwners =
            @ \cup {<<id, userId>>} \cup (IF partner = NULL THEN {} ELSE {<<id, partner>>})]

\* a present field of the update replaces the column (<<>> = field omitted)
Field(patch, old) == IF patch = <<>> THEN old ELSE patch[1]

updateCollection(D, id, patch) ==
    LET sid == Field(patch.sessionId, D.collections[id].sessionId)
    IN  IF sid # NULL /\ sid \notin DOMAIN D.sessions
        THEN [ok |-> FALSE, db |-> D]
        ELSE Ok([D EXCEPT !.collections[id] =
                    [@ EXCEPT
                        !.isTemporary = Field(patch.isTemporary, @),
                        !.sessionId = sid,
                        !.expiresAt = Field(patch.expiresAt, @)]])

\* photo by photo: blob, then row; finally the collection row
deleteCollection(D, id) ==
    LET collectionPhotos == PhotosIn(D, {id})
        step2(r) == IF r.ok THEN DeleteCollections(r.db, {id}) ELSE r
    IN  step2(DeletePhotos([D EXCEPT !.blobs = @ \ collectionPhotos], collectionPhotos))

checkCollectionOwnership(D, collectionId, userId) ==
    <<collectionId, userId>> \in D.collectionOwners

\* ------------------------------------------------- AuthContext (client)
\* 5 s before expiry, in the clock's unit
WARNING_TIME == 1

\* maxAge of the sessionId cookie
COOKIE_MAX_AGE == 10

\* the AuthProvider's state and refs on mount; expired and last record what
\* the provider did (EXPIRED entered and no login since; its last step)
ClientInit ==
    [user |-> NULL, sessionTimeRemaining |-> NULL, showExtensionDialog |-> FALSE,
     authCheckIntervalRef |-> FALSE, warningShownRef |-> FALSE,
     sessionExpiresAtRef |-> NULL, lastTick |-> NULL, location |-> "app",
     mounted |-> FALSE, pending |-> {}, cookie |-> NULL, cookieExpiresAt |-> NULL,
     expired |-> FALSE, last |-> "init"]

\* the cookie the browser sends at t
ClientCookie(c, t) ==
    IF c.cookie # NULL /\ t < c.cookieExpiresAt THEN c.cookie ELSE NULL

clearTimers(c) == [c EXCEPT !.authCheckIntervalRef = FALSE]

\* an expiry handler that leaves the interval running (a faulty variant
\* the EXPIRED property must tell apart)
handleSessionExpiryKeepingTimers(c) ==
    [c EXCEPT !.sessionTimeRemaining = NULL, !.user = NULL,
              !.showExtensionDialog = FALSE, !.sessionExpiresAtRef = NULL,
              !.warningShownRef = FALSE, !.location = "login", !.expired = TRUE]

handleSessionExpiry(c) ==
    [clearTimers(c) EXCEPT !.sessionTimeRemaining = NULL, !.user = NULL,
                           !.showExtensionDialog = FALSE, !.sessionExpiresAtRef = NULL,
                           !.warningShownRef = FALSE, !.location = "login",
                           !.expired = TRUE]

startSessionTimer(c, t) ==
    IF c.sessionExpiresAtRef = NULL THEN clearTimers(c)
    ELSE IF c.sessionExpiresAtRef - t <= 0 THEN handleSessionExpiry(clearTimers(c))
    ELSE [clearTimers(c) EXCEPT !.sessionTimeRemaining = c.sessionExpiresAtRef - t,
                                !.authCheckIntervalRef = TRUE,
                                !.lastTick = t]

\* what the interval callback computes: null - Date.now() is negative
CurrentTimeRemaining(c, t) ==
    IF c.sessionExpiresAtRef = NULL THEN -1 ELSE c.sessionExpiresAtRef - t

\* the setInterval callback
countdownInterval(c, t) ==
    IF CurrentTimeRemaining(c, t) <= 0 THEN handleSessionExpiry(c)
    ELSE IF CurrentTimeRemaining(c, t) <= WARNING_TIME /\ ~c.warningShownRef
    THEN [c EXCEPT !.sessionTimeRemaining = CurrentTimeRemaining(c, t),
                   !.lastTick = t,
                   !.warningShownRef = TRUE, !.showExtensionDialog = TRUE]
    ELSE [c EXCEPT !.sessionTimeRemaining = CurrentTimeRemaining(c, t),
                   !.lastTick = t]

\* checkAuth after its fetch settled; r.status = 0: the fetch threw
checkAuth(c, r, t) ==
    IF r.status = 200
    THEN startSessionTimer([c EXCEPT !.user = r.userId,
                                     !.sessionExpiresAtRef = r.expiresAt,
                                     !.warningShownRef = FALSE], t)
    ELSE IF r.status = 401 THEN handleSessionExpiry(c)
    ELSE [c EXCEPT !.user = NULL, !.sessionTimeRemaining = NULL,
                   !.showExtensionDialog = FALSE, !.sessionExpiresAtRef = NULL]

\* login after its fetch settled; the browser stores the cookie of a 200
clientLogin(c, r, t) ==
    IF r.status = 200
    THEN startSessionTimer([c EXCEPT !.user = r.userId,
                                     !.sessionExpiresAtRef = r.expiresAt,
                                     !.warningShownRef = FALSE,
                                     !.cookie = r.sid,
                                     !.cookieExpiresAt = t + COOKIE_MAX_AGE,
                                     !.expired = FALSE], t)
    ELSE c

\* logout's finally block; a 200 clears the cookie
clientLogout(c, r) ==
    [clearTimers(c) EXCEPT !.user = NULL, !.sessionTimeRemaining = NULL,
                           !.showExtensionDialog = FALSE, !.sessionExpiresAtRef = NULL,
                           !.warningShownRef = FALSE, !.location = "login",
                           !.cookie = IF r.status = 200 THEN NULL ELSE @]

\* useSessionTimeout: 2 minutes and 1 minute
WARNING_THRESHOLD == 2

CRITICAL_THRESHOLD == 1

\* sessionTimeRemaining && sessionTimeRemaining <= threshold
isWarningState(c) ==
    /\ c.sessionTimeRemaining # NULL
    /\ c.sessionTimeRemaining # 0
    /\ c.sessionTimeRemaining <= WARNING_THRESHOLD

isCriticalState(c) ==
    /\ c.sessionTimeRemaining # NULL
    /\ c.sessionTimeRemaining # 0
    /\ c.sessionTimeRemaining <= CRITICAL_THRESHOLD

\* a settled fetch on its way to the provider
Settled(kind, status, userId, sid, expiresAt) ==
    [kind |-> kind, status |-> status, userId |-> userId, sid |-> sid,
     expiresAt |-> expiresAt]

\* ------------------------------------------------------------ photo-model
createPhoto(D, id, collectionId, isTemporary, sessionId, expiresAt) ==
    [D EXCEPT !.photos =
        [p \in DOMAIN @ \cup {id} |->
            IF p = id
            THEN [collectionId |-> collectionId, isTemporary |-> isTemporary,
                  sessionId |-> sessionId, expiresAt |-> expiresAt]
            ELSE @[p]]]

deletePhoto(D, id) == DeletePhotos(deletePhotoFromFirebaseStorage(D, id), {id})

\* ================================================================ actions
\* ------------------------------------------------------ withDatabaseRetry
MaxRetries == 5

DEFAULT_MAX_RETRIES == 3
BACKOFF_BASE_MS == 1000
BACKOFF_CAP_MS == 5000

\* what one invocation of the operation does: resolve, or reject with an
\* Error whose message holds ETIMEDOUT, holds ECONNRESET, or holds neither
Outcomes == {"ok", "ETIMEDOUT", "ECONNRESET", "other"}

\* error.message.includes('ETIMEDOUT') || error.message.includes('ECONNRESET')
isConnectionError(error) == error \in {"ETIMEDOUT", "ECONNRESET"}

\* no call made yet
NoRetry == [called |-> FALSE]

\* the call entered, before the loop's first test.  history: what the
\* invocations made so far did; delays: the waits so far, in ms
retryStart(maxRetries, given) ==
    [called |-> TRUE, maxRetries |-> maxRetries, given |-> given, attempt |-> 1,
     history |-> <<>>, delays |-> <<>>, status |-> "running", value |-> NULL]

\* a pass that waits and tries again after any error (the faulty variant
\* the retry property must tell apart)
retryPassOnAnyError(r, out) ==
    IF r.attempt > r.maxRetries
    THEN [r EXCEPT !.status = "thrown", !.value = "undefined"]
    ELSE IF out = "ok"
    THEN [r EXCEPT !.history = Append(@, out), !.status = "returned",
                   !.value = r.attempt]
    ELSE IF r.attempt < r.maxRetries
    THEN [r EXCEPT !.history = Append(@, out),
                   !.delays = Append(@, IF BACKOFF_BASE_MS * 2 ^ (r.attempt - 1)
                                              < BACKOFF_CAP_MS
                                        THEN BACKOFF_BASE_MS * 2 ^ (r.attempt - 1)
                                        ELSE BACKOFF_CAP_MS),
                   !.attempt = @ + 1]
    ELSE [r EXCEPT !.history = Append(@, out), !.status = "thrown", !.value = out]

\* one pass of the for loop: its test, the invocation (which does out),
\* and the catch block with its wait.  When the test fails the loop is
\* left and the never assigned lastError is thrown.  value: the error
\* thrown, or the number of the invocation whose result is returned
retryPass(r, out) ==
    IF r.attempt > r.maxRetries
    THEN [r EXCEPT !.status = "thrown", !.value = "undefined"]
    ELSE IF out = "ok"
    THEN [r EXCEPT !.history = Append(@, out), !.status = "returned",
                   !.value = r.attempt]
    ELSE IF isConnectionError(out) /\ r.attempt < r.maxRetries
    THEN [r EXCEPT !.history = Append(@, out),
                   !.delays = Append(@, IF BACKOFF_BASE_MS * 2 ^ (r.attempt - 1)
                                              < BACKOFF_CAP_MS
                                        THEN BACKOFF_BASE_MS * 2 ^ (r.attempt - 1)
                                        ELSE BACKOFF_CAP_MS),
                   !.attempt = @ + 1]
    ELSE [r EXCEPT !.history = Append(@, out), !.status = "thrown", !.value = out]

EmptyFn == [x \in {} |-> NULL]

Rsp(op, sid, status, expiresAt) ==
    [op |-> op, sid |-> sid, status |-> status, expiresAt |-> expiresAt]

\* session ids a client may present: every id issued so far
SessionIds == 1 .. (nextSessionId - 1)

\* what a request may carry: an id issued so far, or none
RequestSessionIds == SessionIds \cup {NULL}

Init ==
    /\ now = 0
    /\ users = (1 :> DEMO_USERNAME) @@ (2 :> <<"alice">>)
    /\ sessions = EmptyFn
    /\ collections =
           [c \in {1, 2} |-> [userId |-> 1, isTemporary |-> FALSE,
                              sessionId |-> NULL, expiresAt |-> NULL]]
    /\ collectionOwners = {<<1, 1>>, <<2, 1>>}
    /\ photos = (1 :> [collectionId |-> 1, isTemporary |-> FALSE,
                       sessionId |-> NULL, expiresAt |-> NULL])
    /\ comments = {}
    /\ partnerships = {}
    /\ invitations = EmptyFn
    /\ nextInvitationId = 1
    /\ accepting = {}
    /\ refreshing = {}
    /\ inviting = {}
    /\ retry = NoRetry
    /\ blobs = {1}
    /\ timers = {}
    /\ nextSessionId = 1
    /\ nextUserId = 3
    /\ nextCollectionId = 7
    /\ nextPhotoId = 2
    /\ client = ClientInit
    /\ resp = Rsp("init", NULL, 0, NULL)

UnchangedIds == UNCHANGED <<nextSessionId, nextUserId, nextCollectionId, nextPhotoId>>

\* time passes; a due setTimeout callback runs before the clock moves on
Tick ==
    /\ now < MaxTime
    /\ \A t \in timers : t.fireAt > now
    /\ now' = now + 1
    /\ resp' = Rsp("tick", NULL, 0, NULL)
    /\ UNCHANGED <<users, sessions, collections, collectionOwners, photos,
                   comments, blobs, timers, partnerships, invitations,
                   nextInvitationId, accepting, refreshing, inviting, retry, client>>
    /\ UnchangedIds

\* POST /auth/login with valid credentials of account u
Login(u) ==
    /\ u \in DOMAIN users
    /\ nextSessionId <= MaxSessionId
    /\ Commit(createSession(Cur, nextSessionId, u, users[u], now).db)
    /\ nextSessionId' = nextSessionId + 1
    /\ resp' = Rsp("login", nextSessionId, 200, now + SESSION_DURATION)
    /\ UNCHANGED <<now, accepting, refreshing, inviting, retry, client, timers, nextUserId, nextCollectionId, nextPhotoId>>

\* POST /auth/login with valid credentials of account u, the session
\* insert possibly failing
LoginAttempt(u, storageError) ==
    /\ u \in DOMAIN users
    /\ nextSessionId <= MaxSessionId
    /\ \E r \in {login(Cur, nextSessionId, u, now, storageError)} :
           /\ Commit(r.db)
           /\ IF r.sessionId = NULL
              THEN /\ UNCHANGED nextSessionId
                   /\ resp' = Rsp(IF storageError THEN "loginStorageError" ELSE "login",
                                  NULL, 401, NULL)
              ELSE /\ nextSessionId' = nextSessionId + 1
                   /\ resp' = Rsp(IF storageError THEN "loginStorageError" ELSE "login",
                                  r.sessionId, 200, now + SESSION_DURATION)
    /\ UNCHANGED <<now, accepting, refreshing, inviting, retry, client, timers, nextUserId, nextCollectionId, nextPhotoId>>

\* GET /auth/me, the store's read possibly failing
GetSessionAttempt(s, storageError) ==
    /\ s \in RequestSessionIds
    /\ \E a \in {requireAuthE(Cur, now, s, storageError)} :
       \E g \in {IF a.status = 200 THEN getSessionE(a.db, now, s, storageError)
                 ELSE [db |-> a.db, session |-> NoSession]} :
           /\ Commit(g.db)
           /\ resp' = Rsp(IF storageError THEN "getSessionStorageError" ELSE "getSession",
                          s, IF g.session.found THEN 200 ELSE 401,
                          g.session.expiresAt)
    /\ UNCHANGED <<now, accepting, refreshing, inviting, retry, client, timers>>
    /\ UnchangedIds

\* POST /demo-users/create
CreateTemporaryDemoUser ==
    /\ nextUserId <= MaxUserId
    /\ nextSessionId <= MaxSessionId
    /\ LET username == <<DEMO_USER_PREFIX, nextUserId>>
           D1 == [Cur EXCEPT !.users = (nextUserId :> username) @@ @]
           D2 == grantAccessToProtectedCollections(D1, nextUserId)
           D3 == createSession(D2, nextSessionId, nextUserId, username, now).db
       IN  /\ Commit(D3)
           /\ timers' = timers \cup
                  {[userId |-> nextUserId, sessionId |-> nextSessionId,
                    fireAt |-> now + SESSION_DURATION]}
    /\ nextUserId' = nextUserId + 1
    /\ nextSessionId' = nextSessionId + 1
    /\ resp' = Rsp("createTemporaryDemoUser", nextSessionId, 201, NULL)
    /\ UNCHANGED <<now, accepting, refreshing, inviting, retry, client, nextCollectionId, nextPhotoId>>

\* the deferred teardown scheduled by createTemporaryDemoUser
TimerFire ==
    \E t \in timers :
        /\ t.fireAt <= now
        /\ Commit(cleanupTemporaryDemoUser(Cur, t.userId, t.sessionId))
        /\ timers' = timers \ {t}
        /\ resp' = Rsp("timer", t.sessionId, 0, NULL)
        /\ UNCHANGED <<now, accepting, refreshing, inviting, retry, client>>
        /\ UnchangedIds

\* DatabaseSessionStore.get / has
Get(s) ==
    /\ s \in SessionIds
    /\ \E g \in {StoreGet(Cur, now, s)} :
           /\ Commit(g.db)
           /\ resp' = Rsp("get", s, IF g.session.found THEN 200 ELSE 401,
                          g.session.expiresAt)
    /\ UNCHANGED <<now, accepting, refreshing, inviting, retry, client, timers>>
    /\ UnchangedIds

\* GET /auth/me: requireAuth, then AuthService.getSession for the expiry
GetSession(s) ==
    /\ s \in RequestSessionIds
    /\ \E a \in {requireAuth(Cur, now, s)} :
       \E g \in {IF a.status = 200 THEN getSession(a.db, now, s)
                 ELSE [db |-> a.db, session |-> NoSession]} :
           /\ Commit(g.db)
           /\ resp' = Rsp("getSession", s, IF g.session.found THEN 200 ELSE 401,
                          g.session.expiresAt)
    /\ UNCHANGED <<now, accepting, refreshing, inviting, retry, client, timers>>
    /\ UnchangedIds

\* POST /auth/logout
Logout(s) ==
    /\ s \in SessionIds
    /\ \E a \in {requireAuth(Cur, now, s)} :
           IF a.status # 200
           THEN Commit(a.db) /\ resp' = Rsp("logout", s, a.status, NULL)
           ELSE Commit(logout(a.db, s)) /\ resp' = Rsp("logout", s, 200, NULL)
    /\ UNCHANGED <<now, accepting, refreshing, inviting, retry, client, timers>>
    /\ UnchangedIds

\* POST /auth/refresh
RefreshSession(s) ==
    /\ s \in SessionIds
    /\ nextSessionId <= MaxSessionId
    /\ \E a \in {requireAuth(Cur, now, s)} :
           IF a.status # 200
           THEN /\ Commit(a.db)
                /\ resp' = Rsp("refresh", s, a.status, NULL)
                /\ UNCHANGED nextSessionId
           ELSE LET newExpirationTime == now + REFRESH_CONTENT_DURATION
                    D1 == extendTemporaryContentExpiration(a.db, s, newExpirationTime)
                    D2 == StoreDelete(D1, s)
                IN  \E r \in {createSession(D2, nextSessionId, a.session.userId,
                                            a.session.username, now)} :
                    /\ Commit(r.db)
                    /\ nextSessionId' = nextSessionId + 1
                    /\ resp' = IF r.ok
                               THEN Rsp("refresh", s, 200,
                                        now + REFRESH_CONTENT_DURATION)
                               ELSE Rsp("refresh", s, 500, NULL)
    /\ UNCHANGED <<now, accepting, refreshing, inviting, retry, client, timers, nextUserId, nextCollectionId, nextPhotoId>>

\* POST /collections (no files attached)
CreateCollection(s, makeTemporary) ==
    /\ s \in RequestSessionIds
    /\ nextCollectionId <= MaxCollectionId
    /\ \E a \in {requireAuth(Cur, now, s)} :
           IF a.status # 200
           THEN /\ Commit(a.db)
                /\ resp' = Rsp("createCollection", s, a.status, NULL)
                /\ UNCHANGED nextCollectionId
           ELSE LET sessionId == IF makeTemporary THEN s ELSE NULL
                    expiresAt == IF makeTemporary /\ sessionId # NULL
                                 THEN now + TEMP_CONTENT_DURATION ELSE NULL
                IN  /\ \E partner \in getUserPartner(a.db, a.session.userId) :
                           Commit(createCollection(a.db, nextCollectionId,
                                                   a.session.userId, makeTemporary,
                                                   sessionId, expiresAt, partner))
                    /\ nextCollectionId' = nextCollectionId + 1
                    /\ resp' = Rsp("createCollection", s, 201, expiresAt)
    /\ UNCHANGED <<now, accepting, refreshing, inviting, retry, client, timers, nextSessionId, nextUserId, nextPhotoId>>

\* POST /photos
CreatePhoto(s, c, makeTemporary) ==
    /\ s \in SessionIds
    /\ c \in DOMAIN collections
    /\ nextPhotoId <= MaxPhotoId
    /\ \E a \in {requireAuth(Cur, now, s)} :
           IF a.status # 200
           THEN /\ Commit(a.db)
                /\ resp' = Rsp("createPhoto", s, a.status, NULL)
                /\ UNCHANGED nextPhotoId
           ELSE IF ~checkCollectionOwnership(a.db, c, a.session.userId)
           THEN /\ Commit(a.db)
                /\ resp' = Rsp("createPhoto", s, 403, NULL)
                /\ UNCHANGED nextPhotoId
           ELSE LET sessionId == IF makeTemporary THEN s ELSE NULL
                    expiresAt == IF makeTemporary /\ sessionId # NULL
                                 THEN now + TEMP_CONTENT_DURATION ELSE NULL
                    D1 == [a.db EXCEPT !.blobs = @ \cup {nextPhotoId}]
                IN  /\ Commit(createPhoto(D1, nextPhotoId, c, makeTemporary,
                                          sessionId, expiresAt))
                    /\ nextPhotoId' = nextPhotoId + 1
                    /\ resp' = Rsp("createPhoto", s, 201, expiresAt)
    /\ UNCHANGED <<now, accepting, refreshing, inviting, retry, client, timers, nextSessionId, nextUserId, nextCollectionId>>

\* request bodies of PUT /collections/:id: a rename, and one that sets the
\* temporal fields (a JSON body cannot carry a Date, so expiresAt is omitted)
Patches(s) ==
    { [isTemporary |-> <<>>, sessionId |-> <<>>, expiresAt |-> <<>>],
      [isTemporary |-> <<TRUE>>, sessionId |-> <<s>>, expiresAt |-> <<>>] }

\* PUT /collections/:id
UpdateCollection(s, c, patch) ==
    /\ s \in SessionIds
    /\ c \in DOMAIN collections
    /\ \E a \in {requireAuth(Cur, now, s)} :
           IF a.status # 200
           THEN Commit(a.db) /\ resp' = Rsp("updateCollection", s, a.status, NULL)
           ELSE IF c \notin DOMAIN a.db.collections
           THEN Commit(a.db) /\ resp' = Rsp("updateCollection", s, 404, NULL)
           ELSE IF ~checkCollectionOwnership(a.db, c, a.session.userId)
           THEN Commit(a.db) /\ resp' = Rsp("updateCollection", s, 403, NULL)
           ELSE \E r \in {updateCollection(a.db, c, patch)} :
                    /\ Commit(r.db)
                    /\ resp' = Rsp("updateCollection", s, IF r.ok THEN 200 ELSE 400,
                                   NULL)
    /\ UNCHANGED <<now, accepting, refreshing, inviting, retry, client, timers>>
    /\ UnchangedIds

\* DELETE /collections/:id
DeleteCollection(s, c) ==
    /\ s \in SessionIds
    /\ c \in DOMAIN collections
    /\ \E a \in {requireAuth(Cur, now, s)} :
           IF a.status # 200
           THEN Commit(a.db) /\ resp' = Rsp("deleteCollection", c, a.status, NULL)
           ELSE IF c \notin DOMAIN a.db.collections
           THEN Commit(a.db) /\ resp' = Rsp("deleteCollection", c, 404, NULL)
           ELSE IF ~checkCollectionOwnership(a.db, c, a.session.userId)
           THEN Commit(a.db) /\ resp' = Rsp("deleteCollection", c, 403, NULL)
           ELSE \E r \in {deleteCollection(a.db, c)} :
                    /\ Commit(r.db)
                    /\ resp' = Rsp("deleteCollection", c, IF r.ok THEN 204 ELSE 500,
                                   NULL)
    /\ UNCHANGED <<now, accepting, refreshing, inviting, retry, client, timers>>
    /\ UnchangedIds

\* DELETE /photos/:id
DeletePhoto(s, p) ==
    /\ s \in SessionIds
    /\ p \in DOMAIN photos
    /\ \E a \in {requireAuth(Cur, now, s)} :
           IF a.status # 200
           THEN Commit(a.db) /\ resp' = Rsp("deletePhoto", s, a.status, NULL)
           ELSE IF p \notin DOMAIN a.db.photos
           THEN Commit(a.db) /\ resp' = Rsp("deletePhoto", s, 404, NULL)
           ELSE IF ~checkCollectionOwnership(a.db, a.db.photos[p].collectionId,
                                             a.session.userId)
           THEN Commit(a.db) /\ resp' = Rsp("deletePhoto", s, 403, NULL)
           ELSE /\ Commit(deletePhoto(a.db, p).db)
                /\ resp' = Rsp("deletePhoto", s, 204, NULL)
    /\ UNCHANGED <<now, accepting, refreshing, inviting, retry, client, timers>>
    /\ UnchangedIds

\* POST /collections/:id/make-permanent
MakeCollectionPermanent(s, c) ==
    /\ s \in SessionIds
    /\ c \in DOMAIN collections
    /\ \E a \in {requireAuth(Cur, now, s)} :
           IF a.status # 200
           THEN Commit(a.db) /\ resp' = Rsp("makeCollectionPermanent", s, a.status, NULL)
           ELSE IF ~checkCollectionOwnership(a.db, c, a.session.userId)
           THEN Commit(a.db) /\ resp' = Rsp("makeCollectionPermanent", s, 403, NULL)
           ELSE /\ Commit(makeCollectionPermanent(a.db, c).db)
                /\ resp' = Rsp("makeCollectionPermanent", s, 200, NULL)
    /\ UNCHANGED <<now, accepting, refreshing, inviting, retry, client, timers>>
    /\ UnchangedIds

\* POST /photos/:id/make-permanent
MakePhotoPermanent(s, p) ==
    /\ s \in SessionIds
    /\ p \in DOMAIN photos
    /\ \E a \in {requireAuth(Cur, now, s)} :
           IF a.status # 200
           THEN Commit(a.db) /\ resp' = Rsp("makePhotoPermanent", s, a.status, NULL)
           ELSE IF p \notin DOMAIN a.db.photos
           THEN Commit(a.db) /\ resp' = Rsp("makePhotoPermanent", s, 404, NULL)
           ELSE IF ~checkCollectionOwnership(a.db, a.db.photos[p].collectionId,
                                             a.session.userId)
           THEN Commit(a.db) /\ resp' = Rsp("makePhotoPermanent", s, 403, NULL)
           ELSE /\ Commit(makePhotoPermanent(a.db, p).db)
                /\ resp' = Rsp("makePhotoPermanent", s, 200, NULL)
    /\ UNCHANGED <<now, accepting, refreshing, inviting, retry, client, timers>>
    /\ UnchangedIds

\* GET /collections/temporary/session: the response body is
\* getTemporaryContentBySession(s) of the state the handler leaves
GetTemporaryContent(s) ==
    /\ s \in SessionIds
    /\ \E a \in {requireAuth(Cur, now, s)} :
           /\ Commit(a.db)
           /\ resp' = Rsp("getTemporaryContent", s, a.status, NULL)
    /\ UNCHANGED <<now, accepting, refreshing, inviting, retry, client, timers>>
    /\ UnchangedIds

\* invite tokens a client may present: every token issued so far
InviteTokens == DOMAIN invitations \cup (1 .. (nextInvitationId - 1))

\* POST /partnerships/invite
CreateInvitation(s) ==
    /\ s \in SessionIds
    /\ nextInvitationId <= MaxInvitationId
    /\ \E a \in {requireAuth(Cur, now, s)} :
           IF a.status # 200
           THEN Commit(a.db) /\ resp' = Rsp("createInvitation", s, a.status, NULL)
           ELSE \E r \in {createPartnershipInvitation(a.db, now, a.session.userId)} :
                    /\ Commit(r.db)
                    /\ resp' = Rsp("createInvitation", s, IF r.ok THEN 200 ELSE 400, NULL)
    /\ UNCHANGED <<now, accepting, refreshing, inviting, retry, client, timers>>
    /\ UnchangedIds

\* POST /partnerships/invite up to the INSERT: the request passes requireAuth and
\* both awaited SELECTs of createPartnershipInvitation (no partner, no pending
\* invitation of the sender) and is about to insert; the statements run outside
\* any transaction, so other requests are served between them
CreateInvitationCheck(s) ==
    /\ s \in SessionIds
    /\ \E a \in {requireAuth(Cur, now, s)} :
           /\ Commit(a.db)
           /\ IF a.status # 200
              THEN /\ resp' = Rsp("createInvitation", s, a.status, NULL)
                   /\ UNCHANGED inviting
              ELSE IF \/ hasPartner(a.db, a.session.userId)
                      \/ \E i \in DOMAIN a.db.invitations :
                             /\ a.db.invitations[i].fromUserId = a.session.userId
                             /\ a.db.invitations[i].status = "pending"
              THEN /\ resp' = Rsp("createInvitation", s, 400, NULL)
                   /\ UNCHANGED inviting
              ELSE /\ resp' = Rsp("createInvitation", s, 0, NULL)
                   /\ inviting' = inviting \cup {[sid |-> s, fromUserId |-> a.session.userId]}
    /\ UNCHANGED <<now, accepting, refreshing, retry, client, timers>>
    /\ UnchangedIds

\* the rest of the invite request: the INSERT (the table has no unique constraint
\* on the sender, only the foreign key to users) and the response
CreateInvitationInsert ==
    /\ nextInvitationId <= MaxInvitationId
    /\ \E q \in inviting :
           /\ inviting' = inviting \ {q}
           /\ IF q.fromUserId \notin DOMAIN users
              THEN /\ Commit(Cur)
                   /\ resp' = Rsp("createInvitation", q.sid, 400, NULL)
              ELSE /\ Commit([Cur EXCEPT
                                 !.invitations =
                                     (nextInvitationId :>
                                         [fromUserId |-> q.fromUserId, toUserId |-> NULL,
                                          status |-> "pending",
                                          expiresAt |-> now + INVITATION_DURATION]) @@ @,
                                 !.nextInvitationId = @ + 1])
                   /\ resp' = Rsp("createInvitation", q.sid, 200, NULL)
    /\ UNCHANGED <<now, accepting, refreshing, retry, client, timers>>
    /\ UnchangedIds

\* POST /partnerships/invite/:token/accept, up to the transaction: the
\* request passes requireAuth and the checks and is about to open it
AcceptInvitation(s, token) ==
    /\ s \in SessionIds
    /\ token \in InviteTokens
    /\ \E a \in {requireAuth(Cur, now, s)} :
           /\ Commit(a.db)
           /\ IF a.status # 200
              THEN /\ resp' = Rsp("acceptInvitation", s, a.status, NULL)
                   /\ UNCHANGED accepting
              ELSE IF ~acceptChecks(a.db, now, token, a.session.userId)
              THEN /\ resp' = Rsp("acceptInvitation", s, 400, NULL)
                   /\ UNCHANGED accepting
              ELSE /\ resp' = Rsp("acceptInvitation", s, 0, NULL)
                   /\ accepting' = accepting \cup
                          {[sid |-> s, token |-> token,
                            fromUserId |-> a.db.invitations[token].fromUserId,
                            acceptingUserId |-> a.session.userId]}
    /\ UNCHANGED <<now, refreshing, inviting, retry, client, timers>>
    /\ UnchangedIds

\* the rest of the accept request: the transaction and the response
AcceptTransaction ==
    \E q \in accepting :
    \E r \in {acceptTransaction(Cur, q.token, q.fromUserId, q.acceptingUserId)} :
        /\ Commit(r.db)
        /\ accepting' = accepting \ {q}
        /\ resp' = Rsp("acceptInvitation", q.sid, IF r.ok THEN 200 ELSE 400, NULL)
        /\ UNCHANGED <<now, refreshing, inviting, retry, client, timers>>
        /\ UnchangedIds

\* POST /partnerships/invite/:token/reject (no authentication)
RejectInvitation(token) ==
    /\ token \in InviteTokens
    /\ \E r \in {rejectPartnershipInvitation(Cur, token)} :
           /\ Commit(r.db)
           /\ resp' = Rsp("rejectInvitation", NULL, IF r.ok THEN 200 ELSE 400, NULL)
    /\ UNCHANGED <<now, accepting, refreshing, inviting, retry, client, timers>>
    /\ UnchangedIds

\* DELETE /partnerships/invite/:token
CancelInvitation(s, token) ==
    /\ s \in SessionIds
    /\ token \in InviteTokens
    /\ \E a \in {requireAuth(Cur, now, s)} :
           IF a.status # 200
           THEN Commit(a.db) /\ resp' = Rsp("cancelInvitation", s, a.status, NULL)
           ELSE \E r \in {cancelPartnershipInvitation(a.db, token, a.session.userId)} :
                    /\ Commit(r.db)
                    /\ resp' = Rsp("cancelInvitation", s, IF r.ok THEN 200 ELSE 400, NULL)
    /\ UNCHANGED <<now, accepting, refreshing, inviting, retry, client, timers>>
    /\ UnchangedIds

\* DELETE /partnerships/partnership
RemovePartnership(s) ==
    /\ s \in SessionIds
    /\ \E a \in {requireAuth(Cur, now, s)} :
           IF a.status # 200
           THEN Commit(a.db) /\ resp' = Rsp("removePartnership", s, a.status, NULL)
           ELSE /\ resp' = Rsp("removePartnership", s, 200, NULL)
                /\ IF hasPartner(a.db, a.session.userId)
                   THEN \E row \in {q \in a.db.partnerships :
                                        q[1] = a.session.userId \/ q[2] = a.session.userId} :
                            Commit(removePartnership(a.db, a.session.userId, row))
                   ELSE Commit(a.db)
    /\ UNCHANGED <<now, accepting, refreshing, inviting, retry, client, timers>>
    /\ UnchangedIds

\* the server's variables other than the database and resp
ServerRest == UNCHANGED <<now, accepting, refreshing, inviting, retry, timers>> /\ UnchangedIds

\* the provider mounts: useEffect runs checkAuth, whose GET /auth/me the
\* server answers at once (fails: the fetch throws instead)
ClientMount(fails) ==
    /\ ~client.mounted
    /\ IF fails
       THEN /\ Commit(Cur)
            /\ UNCHANGED resp
            /\ client' = [client EXCEPT
                              !.mounted = TRUE,
                              !.last = "mount",
                              !.pending = @ \cup {Settled("me", 0, NULL, NULL, NULL)}]
       ELSE \E a \in {requireAuth(Cur, now, ClientCookie(client, now))} :
            \E g \in {IF a.status = 200
                      THEN getSession(a.db, now, ClientCookie(client, now))
                      ELSE [db |-> a.db, session |-> NoSession]} :
                /\ Commit(g.db)
                /\ resp' = Rsp("getSession", ClientCookie(client, now),
                               IF g.session.found THEN 200 ELSE 401,
                               g.session.expiresAt)
                /\ client' = [client EXCEPT
                                  !.mounted = TRUE,
                                  !.last = "mount",
                                  !.pending = @ \cup
                                      {Settled("me",
                                               IF g.session.found THEN 200 ELSE 401,
                                               g.session.userId, NULL,
                                               g.session.expiresAt)}]
    /\ ServerRest

\* checkAuth resumes with the settled fetch
ClientCheckAuth ==
    \E r \in client.pending :
        /\ r.kind = "me"
        /\ client' = [checkAuth([client EXCEPT !.pending = @ \ {r}], r, now)
                          EXCEPT !.last = IF r.status = 200 THEN "authOk"
                                          ELSE IF r.status = 401 THEN "auth401"
                                          ELSE "authError"]
        /\ Commit(Cur)
        /\ UNCHANGED resp
        /\ ServerRest

\* the login form is submitted with valid credentials of u (fails: the
\* fetch throws before reaching the server)
ClientLoginSubmit(u, fails) ==
    /\ client.mounted
    /\ u \in DOMAIN users
    /\ ~\E r \in client.pending : r.kind = "login"
    /\ nextSessionId <= MaxSessionId
    /\ IF fails
       THEN /\ Commit(Cur)
            /\ UNCHANGED <<resp, nextSessionId>>
            /\ client' = [client EXCEPT
                              !.last = "submit",
                              !.pending = @ \cup {Settled("login", 0, NULL, NULL, NULL)}]
       ELSE \E r \in {login(Cur, nextSessionId, u, now, FALSE)} :
                /\ Commit(r.db)
                /\ nextSessionId' = nextSessionId + 1
                /\ resp' = Rsp("login", r.sessionId, 200, now + SESSION_DURATION)
                /\ client' = [client EXCEPT
                                  !.last = "submit",
                                  !.pending = @ \cup
                                      {Settled("login", 200, u, r.sessionId,
                                               now + SESSION_DURATION)}]
    /\ UNCHANGED <<now, accepting, refreshing, inviting, retry, timers, nextUserId, nextCollectionId, nextPhotoId>>

\* login resumes with the settled fetch
ClientLogin ==
    \E r \in client.pending :
        /\ r.kind = "login"
        /\ client' = [clientLogin([client EXCEPT !.pending = @ \ {r}], r, now)
                          EXCEPT !.last = IF r.status = 200 THEN "login"
                                          ELSE "loginFailed"]
        /\ Commit(Cur)
        /\ UNCHANGED resp
        /\ ServerRest

\* logout is called: POST /auth/logout, answered at once
ClientLogoutSubmit ==
    /\ client.mounted
    /\ client.user # NULL
    /\ ~\E r \in client.pending : r.kind = "logout"
    /\ \E a \in {requireAuth(Cur, now, ClientCookie(client, now))} :
           /\ IF a.status # 200 THEN Commit(a.db)
              ELSE Commit(logout(a.db, ClientCookie(client, now)))
           /\ resp' = Rsp("logout", ClientCookie(client, now), a.status, NULL)
           /\ client' = [client EXCEPT
                             !.last = "submit",
                             !.pending = @ \cup
                                 {Settled("logout", a.status, NULL, NULL, NULL)}]
    /\ ServerRest

\* logout resumes with the settled fetch
ClientLogout ==
    \E r \in client.pending :
        /\ r.kind = "logout"
        /\ client' = [clientLogout([client EXCEPT !.pending = @ \ {r}], r)
                          EXCEPT !.last = "logout"]
        /\ Commit(Cur)
        /\ UNCHANGED resp
        /\ ServerRest

\* the interval fires (every second while it is set)
ClientCountdown ==
    /\ client.authCheckIntervalRef
    /\ client' = [countdownInterval(client, now)
                      EXCEPT !.last = IF CurrentTimeRemaining(client, now) <= 0
                                      THEN "countdownExpired" ELSE "tick"]
    /\ Commit(Cur)
    /\ UNCHANGED resp
    /\ ServerRest

\* the page is loaded again: a new provider, the browser's cookie kept
ClientReload ==
    /\ client.mounted
    /\ client.pending = {}
    /\ client' = [ClientInit EXCEPT !.cookie = client.cookie,
                                    !.cookieExpiresAt = client.cookieExpiresAt,
                                    !.last = "reload"]
    /\ Commit(Cur)
    /\ UNCHANGED resp
    /\ ServerRest

\* a minute passes: every fetch has settled and been handled, and a set
\* interval has fired in the current minute
ClientTick ==
    /\ client.pending = {}
    /\ client.authCheckIntervalRef => client.lastTick = now
    /\ Tick

\* AuthService.getSession up to its auto-refresh: the store's get returned
\* a row close to expiry and the upsert has not reached the database yet
GetSessionRead(s) ==
    /\ s \in SessionIds
    /\ \E g \in {StoreGet(Cur, now, s)} :
           /\ g.session.found
           /\ g.session.expiresAt - now < SESSION_REFRESH_THRESHOLD
           /\ Commit(g.db)
           /\ refreshing' = refreshing \cup
                  {[sessionId |-> s, userId |-> g.session.userId,
                    username |-> g.session.username,
                    expiresAt |-> now + SESSION_DURATION]}
           /\ resp' = Rsp("getSessionRead", s, 0, NULL)
    /\ UNCHANGED <<now, accepting, inviting, retry, client, timers>>
    /\ UnchangedIds

\* the auto-refresh write of such a call: DatabaseSessionStore.set
GetSessionWrite ==
    \E q \in refreshing :
        /\ Commit(StoreSet(Cur, q.sessionId, q.userId, q.username, q.expiresAt).db)
        /\ refreshing' = refreshing \ {q}
        /\ resp' = Rsp("getSession", q.sessionId, 200, q.expiresAt)
        /\ UNCHANGED <<now, accepting, inviting, retry, client, timers>>
        /\ UnchangedIds

\* POST /photos/:photoId/comments
CreateComment(s, p) ==
    /\ s \in SessionIds
    /\ p \in DOMAIN photos
    /\ \E a \in {requireAuth(Cur, now, s)} :
           IF a.status # 200
           THEN Commit(a.db) /\ resp' = Rsp("createComment", s, a.status, NULL)
           ELSE IF p \notin DOMAIN a.db.photos
           THEN Commit(a.db) /\ resp' = Rsp("createComment", s, 404, NULL)
           ELSE IF ~checkCollectionOwnership(a.db, a.db.photos[p].collectionId,
                                             a.session.userId)
           THEN Commit(a.db) /\ resp' = Rsp("createComment", s, 403, NULL)
           ELSE /\ Commit([a.db EXCEPT !.comments = @ \cup {<<p, a.session.userId>>}])
                /\ resp' = Rsp("createComment", s, 201, NULL)
    /\ UNCHANGED <<now, accepting, refreshing, inviting, retry, client, timers>>
    /\ UnchangedIds

\* POST /demo/cleanup
DemoCleanup(s) ==
    /\ s \in SessionIds
    /\ \E a \in {requireAuth(Cur, now, s)} :
           IF a.status # 200
           THEN Commit(a.db) /\ resp' = Rsp("demoCleanup", s, a.status, NULL)
           ELSE IF a.db.users[a.session.userId] # DEMO_USERNAME
           THEN Commit(a.db) /\ resp' = Rsp("demoCleanup", s, 403, NULL)
           ELSE /\ Commit(cleanupDemoUserContent(a.db))
                /\ resp' = Rsp("demoCleanup", s, 200, NULL)
    /\ UNCHANGED <<now, accepting, refreshing, inviting, retry, client, timers>>
    /\ UnchangedIds

\* POST /demo-users/cleanup-expired
CleanupExpiredDemoUsers ==
    /\ Commit(cleanupExpiredDemoUsers(Cur, now))
    /\ resp' = Rsp("cleanupExpiredDemoUsers", NULL, 200, NULL)
    /\ UNCHANGED <<now, accepting, refreshing, inviting, retry, client, timers>>
    /\ UnchangedIds

\* the setInterval sweep of controllers/auth.ts
SweepAuth ==
    /\ \E D \in {AuthCleanExpiredSessions(Cur, now)} : Commit(D)
    /\ resp' = Rsp("sweepAuth", NULL, 0, NULL)
    /\ UNCHANGED <<now, accepting, refreshing, inviting, retry, client, timers>>
    /\ UnchangedIds

\* the setInterval sweep of the DatabaseSessionStore constructor
SweepStore ==
    /\ \E D \in {StoreCleanExpiredSessions(Cur, now)} : Commit(D)
    /\ resp' = Rsp("sweepStore", NULL, 0, NULL)
    /\ UNCHANGED <<now, accepting, refreshing, inviting, retry, client, timers>>
    /\ UnchangedIds

Next ==
    \/ Tick
    \/ \E u \in DOMAIN users : Login(u)
    \/ CreateTemporaryDemoUser
    \/ TimerFire
    \/ \E s \in SessionIds : Get(s)
    \/ \E s \in SessionIds : GetSession(s)
    \/ \E s \in SessionIds : Logout(s)
    \/ \E s \in SessionIds : RefreshSession(s)
    \/ \E s \in SessionIds : \E t \in BOOLEAN : CreateCollection(s, t)
    \/ \E s \in SessionIds : \E c \in DOMAIN collections : \E t \in BOOLEAN :
           CreatePhoto(s, c, t)
    \/ \E s \in SessionIds : \E c \in DOMAIN collections : \E patch \in Patches(s) :
           UpdateCollection(s, c, patch)
    \/ \E s \in SessionIds : \E c \in DOMAIN collections : DeleteCollection(s, c)
    \/ \E s \in SessionIds : \E p \in DOMAIN photos : DeletePhoto(s, p)
    \/ \E s \in SessionIds : \E c \in DOMAIN collections : MakeCollectionPermanent(s, c)
    \/ \E s \in SessionIds : \E p \in DOMAIN photos : MakePhotoPermanent(s, p)
    \/ \E s \in SessionIds : GetTemporaryContent(s)
    \/ \E s \in SessionIds : CreateInvitation(s)
    \/ \E s \in SessionIds : \E token \in InviteTokens : AcceptInvitation(s, token)
    \/ AcceptTransaction
    \/ \E token \in InviteTokens : RejectInvitation(token)
    \/ \E s \in SessionIds : \E token \in InviteTokens : CancelInvitation(s, token)
    \/ \E s \in SessionIds : RemovePartnership(s)
    \/ \E u \in DOMAIN users : \E storageError \in BOOLEAN : LoginAttempt(u, storageError)
    \/ \E s \in RequestSessionIds : \E storageError \in BOOLEAN :
           GetSessionAttempt(s, storageError)
    \/ \E s \in SessionIds : GetSessionRead(s)
    \/ GetSessionWrite
    \/ \E fails \in BOOLEAN : ClientMount(fails)
    \/ ClientCheckAuth
    \/ \E u \in DOMAIN users : \E fails \in BOOLEAN : ClientLoginSubmit(u, fails)
    \/ ClientLogin
    \/ ClientLogoutSubmit
    \/ ClientLogout
    \/ ClientCountdown
    \/ ClientReload
    \/ \E s \in SessionIds : \E p \in DOMAIN photos : CreateComment(s, p)
    \/ \E s \in SessionIds : DemoCleanup(s)
    \/ CleanupExpiredDemoUsers
    \/ SweepAuth
    \/ SweepStore

Spec == Init /\ [][Next]_vars

\* ------------------------------------------------------------- scenarios
\* Each scenario runs a subset of the handlers above, so each of its
\* behaviours is a behaviour of Spec.
DemoUsers == {u \in DOMAIN users : users[u] = DEMO_USERNAME}

RegularUsers ==
    {u \in DOMAIN users : users[u] # DEMO_USERNAME /\ ~isTemporaryDemoUser(users[u])}

\* sessions of regular and demo accounts under the clock: reads and sweeps
NextRenew ==
    \/ Tick
    \/ \E u \in DOMAIN users : Login(u)
    \/ \E s \in SessionIds : Get(s)
    \/ \E s \in SessionIds : GetSession(s)
    \/ SweepAuth

SpecRenew == Init /\ [][NextRenew]_vars

\* every session operation of every account kind under the clock
NextSession ==
    \/ Tick
    \/ \E u \in DOMAIN users : Login(u)
    \/ CreateTemporaryDemoUser
    \/ TimerFire
    \/ \E s \in SessionIds : Get(s)
    \/ \E s \in SessionIds : GetSession(s)
    \/ \E s \in SessionIds : Logout(s)
    \/ \E s \in SessionIds : RefreshSession(s)
    \/ CleanupExpiredDemoUsers
    \/ SweepAuth
    \/ SweepStore

SpecSession == Init /\ [][NextSession]_vars

\* a regular account creating session-scoped content under the clock
NextTemp ==
    \/ Tick
    \/ \E u \in RegularUsers : Login(u)
    \/ \E s \in SessionIds : Get(s)
    \/ \E s \in SessionIds : GetSession(s)
    \/ \E s \in SessionIds : RefreshSession(s)
    \/ \E s \in SessionIds : CreateCollection(s, TRUE)
    \/ \E s \in SessionIds : \E c \in DOMAIN collections \ PROTECTED_COLLECTION_IDS :
           \E t \in BOOLEAN : CreatePhoto(s, c, t)
    \/ SweepAuth

SpecTemp == Init /\ [][NextTemp]_vars

\* owners acting on the existing collections, and the cleanups (no clock)
NextProtected ==
    \/ \E u \in DOMAIN users : Login(u)
    \/ CreateTemporaryDemoUser
    \/ \E s \in SessionIds : Logout(s)
    \/ \E s \in SessionIds : \E c \in DOMAIN collections : \E patch \in Patches(s) :
           UpdateCollection(s, c, patch)
    \/ \E s \in SessionIds : \E c \in DOMAIN collections : DeleteCollection(s, c)
    \/ \E s \in SessionIds : \E p \in DOMAIN photos : DeletePhoto(s, p)
    \/ \E s \in SessionIds : DemoCleanup(s)
    \/ CleanupExpiredDemoUsers

SpecProtected == Init /\ [][NextProtected]_vars

\* every account kind creating content, and the cleanups (no clock)
NextContent ==
    \/ \E u \in DOMAIN users : Login(u)
    \/ CreateTemporaryDemoUser
    \/ \E s \in SessionIds : Logout(s)
    \/ \E s \in SessionIds : \E t \in BOOLEAN : CreateCollection(s, t)
    \/ \E s \in SessionIds : \E c \in DOMAIN collections : \E t \in BOOLEAN :
           CreatePhoto(s, c, t)
    \/ \E s \in SessionIds : \E p \in DOMAIN photos : CreateComment(s, p)
    \/ \E s \in SessionIds : DemoCleanup(s)
    \/ CleanupExpiredDemoUsers

SpecContent == Init /\ [][NextContent]_vars

\* the shared demo account creating content, and its cleanups (no clock)
NextDemo ==
    \/ \E u \in DemoUsers : Login(u)
    \/ \E s \in SessionIds : Logout(s)
    \/ \E s \in SessionIds : \E t \in BOOLEAN : CreateCollection(s, t)
    \/ \E s \in SessionIds : \E c \in DOMAIN collections : \E t \in BOOLEAN :
           CreatePhoto(s, c, t)
    \/ \E s \in SessionIds : DemoCleanup(s)

SpecDemo == Init /\ [][NextDemo]_vars

\* a handler calls withDatabaseRetry(operation, maxRetries); maxRetries =
\* NULL: the argument is left out
WithDatabaseRetry(maxRetries) ==
    /\ ~retry.called
    /\ retry' = retryStart(IF maxRetries = NULL THEN DEFAULT_MAX_RETRIES ELSE maxRetries,
                           maxRetries # NULL)
    /\ UNCHANGED <<now, users, sessions, collections, collectionOwners, photos,
                   comments, partnerships, invitations, nextInvitationId, accepting,
                   refreshing, inviting, blobs, timers, client, resp>>
    /\ UnchangedIds

\* the call goes once through its loop, the operation doing out
RetryPass(out) ==
    /\ retry.called
    /\ retry.status = "running"
    /\ retry' = retryPass(retry, out)
    /\ UNCHANGED <<now, users, sessions, collections, collectionOwners, photos,
                   comments, partnerships, invitations, nextInvitationId, accepting,
                   refreshing, inviting, blobs, timers, client, resp>>
    /\ UnchangedIds

NextRetry ==
    \/ \E maxRetries \in (0 .. MaxRetries) \cup {NULL} : WithDatabaseRetry(maxRetries)
    \/ \E out \in Outcomes : RetryPass(out)

SpecRetry == Init /\ [][NextRetry]_vars

\* the demo accounts creating content that their cleanups then remove
NextOrder ==
    \/ \E u \in DemoUsers : Login(u)
    \/ CreateTemporaryDemoUser
    \/ \E s \in SessionIds : \E t \in BOOLEAN : CreateCollection(s, t)
    \/ \E s \in SessionIds : \E c \in DOMAIN collections \ PROTECTED_COLLECTION_IDS :
           CreatePhoto(s, c, TRUE)
    \/ \E s \in SessionIds : DemoCleanup(s)

SpecOrder == Init /\ [][NextOrder]_vars

\* the shared demo account's sessions running out under the clock
NextExpiry ==
    \/ Tick
    \/ \E u \in DemoUsers : Login(u)
    \/ \E s \in SessionIds : Get(s)
    \/ \E s \in SessionIds : Logout(s)
    \/ \E s \in SessionIds : CreateCollection(s, FALSE)
    \/ SweepAuth
    \/ SweepStore

SpecExpiry == Init /\ [][NextExpiry]_vars

\* a regular account creating, updating and leaving content (no clock)
NextRegular ==
    \/ \E u \in RegularUsers : Login(u)
    \/ \E s \in SessionIds : Logout(s)
    \/ \E s \in SessionIds : \E t \in BOOLEAN : CreateCollection(s, t)
    \/ \E s \in SessionIds : \E c \in DOMAIN collections : \E t \in BOOLEAN :
           CreatePhoto(s, c, t)
    \/ \E s \in SessionIds : \E c \in DOMAIN collections : \E patch \in Patches(s) :
           UpdateCollection(s, c, patch)

SpecRegular == Init /\ [][NextRegular]_vars

\* a regular account's temporary content and its conversion (no clock)
NextTemporal ==
    \/ \E u \in RegularUsers : Login(u)
    \/ \E s \in SessionIds : \E t \in BOOLEAN : CreateCollection(s, t)
    \/ \E s \in SessionIds : \E c \in DOMAIN collections : \E t \in BOOLEAN :
           CreatePhoto(s, c, t)
    \/ \E s \in SessionIds : \E c \in DOMAIN collections : MakeCollectionPermanent(s, c)
    \/ \E s \in SessionIds : \E p \in DOMAIN photos : MakePhotoPermanent(s, p)
    \/ \E s \in SessionIds : GetTemporaryContent(s)

SpecTemporal == Init /\ [][NextTemporal]_vars

\* partnerships: alice's invitation is pending (issued in a session that has
\* since ended); the demo account and a temporary demo account act on it
InitPartner ==
    /\ now = 0
    /\ users = (1 :> DEMO_USERNAME) @@ (2 :> <<"alice">>)
    /\ sessions = EmptyFn
    /\ collections =
           [c \in {1, 2} |-> [userId |-> 1, isTemporary |-> FALSE,
                              sessionId |-> NULL, expiresAt |-> NULL]]
    /\ collectionOwners = {<<1, 1>>, <<2, 1>>}
    /\ photos = (1 :> [collectionId |-> 1, isTemporary |-> FALSE,
                       sessionId |-> NULL, expiresAt |-> NULL])
    /\ comments = {}
    /\ partnerships = {}
    /\ invitations = (1 :> [fromUserId |-> 2, toUserId |-> NULL,
                            status |-> "pending", expiresAt |-> INVITATION_DURATION])
    /\ nextInvitationId = 2
    /\ accepting = {}
    /\ refreshing = {}
    /\ inviting = {}
    /\ retry = NoRetry
    /\ blobs = {1}
    /\ timers = {}
    /\ nextSessionId = 1
    /\ nextUserId = 3
    /\ nextCollectionId = 7
    /\ nextPhotoId = 2
    /\ client = ClientInit
    /\ resp = Rsp("init", NULL, 0, NULL)

NextPartner ==
    \/ \E u \in DOMAIN users : Login(u)
    \/ CreateTemporaryDemoUser
    \/ \E s \in SessionIds : CreateInvitation(s)
    \/ \E s \in SessionIds : \E token \in InviteTokens : AcceptInvitation(s, token)
    \/ AcceptTransaction
    \/ \E token \in InviteTokens : RejectInvitation(token)
    \/ \E s \in SessionIds : \E token \in InviteTokens : CancelInvitation(s, token)
    \/ \E s \in SessionIds : RemovePartnership(s)
    \/ \E s \in SessionIds : CreateCollection(s, FALSE)

SpecPartner == InitPartner /\ [][NextPartner]_vars

\* invitations issued and accepted, nothing else
NextInvite ==
    \/ \E u \in DOMAIN users : Login(u)
    \/ CreateTemporaryDemoUser
    \/ \E s \in SessionIds : CreateInvitation(s)
    \/ \E s \in SessionIds : \E token \in InviteTokens : AcceptInvitation(s, token)
    \/ AcceptTransaction

SpecInvite == InitPartner /\ [][NextInvite]_vars

\* invitations issued by interleaved requests, from the empty invitation table
NextInviteRace ==
    \/ \E u \in RegularUsers : Login(u)
    \/ \E s \in SessionIds : CreateInvitation(s)
    \/ \E s \in SessionIds : CreateInvitationCheck(s)
    \/ CreateInvitationInsert
    \/ \E s \in SessionIds : \E token \in InviteTokens : CancelInvitation(s, token)

SpecInviteRace == Init /\ [][NextInviteRace]_vars

\* requests with a live, an ended, an expired or no session id
NextAuth ==
    \/ Tick
    \/ \E u \in RegularUsers : Login(u)
    \/ \E s \in SessionIds : Logout(s)
    \/ \E s \in RequestSessionIds : GetSession(s)
    \/ \E s \in RequestSessionIds : CreateCollection(s, FALSE)

SpecAuth == Init /\ [][NextAuth]_vars

\* logins and session reads while the store's statements may fail
NextStore ==
    \/ Tick
    \/ \E u \in RegularUsers : \E storageError \in BOOLEAN : LoginAttempt(u, storageError)
    \/ \E s \in RequestSessionIds : \E storageError \in BOOLEAN :
           GetSessionAttempt(s, storageError)
    \/ \E s \in SessionIds : Logout(s)

SpecStore == Init /\ [][NextStore]_vars

\* one browser tab against the server
NextClient ==
    \/ ClientTick
    \/ \E fails \in BOOLEAN : ClientMount(fails)
    \/ ClientCheckAuth
    \/ \E u \in RegularUsers : \E fails \in BOOLEAN : ClientLoginSubmit(u, fails)
    \/ ClientLogin
    \/ ClientLogoutSubmit
    \/ ClientLogout
    \/ ClientCountdown
    \/ ClientReload

SpecClient == Init /\ [][NextClient]_vars

\* session reads whose auto-refresh overlaps a logout
NextRefresh ==
    \/ Tick
    \/ \E u \in RegularUsers : Login(u)
    \/ \E s \in SessionIds : Get(s)
    \/ \E s \in SessionIds : GetSessionRead(s)
    \/ GetSessionWrite
    \/ \E s \in SessionIds : Logout(s)

SpecRefresh == Init /\ [][NextRefresh]_vars

\* a regular account's content under the clock and the two sweep timers
NextSweep ==
    \/ Tick
    \/ \E u \in RegularUsers : Login(u)
    \/ \E s \in SessionIds : \E t \in BOOLEAN : CreateCollection(s, t)
    \/ \E s \in SessionIds : \E c \in DOMAIN collections : \E t \in BOOLEAN :
           CreatePhoto(s, c, t)
    \/ SweepAuth
    \/ SweepStore

SpecSweep == Init /\ [][NextSweep]_vars

\* temporary collections receiving permanent photos while the clock and
\* the sweeps run
NextSweepFair ==
    \/ Tick
    \/ \E u \in RegularUsers : Login(u)
    \/ \E s \in SessionIds : CreateCollection(s, TRUE)
    \/ \E s \in SessionIds : \E c \in DOMAIN collections \ PROTECTED_COLLECTION_IDS :
           CreatePhoto(s, c, FALSE)
    \/ SweepAuth

\* the setInterval sweep is never cancelled: it runs again and again, and
\* the clock moves on as long as the model lets it
SpecSweepFair ==
    /\ Init /\ [][NextSweepFair]_vars
    /\ WF_vars(Tick) /\ WF_vars(SweepAuth)

\* ================================================================ claims
\* C1: a session read (DatabaseSessionStore.get, AuthService.getSession)
\* returns a session only if the stored row's expiresAt is not earlier than
\* now; a read that reports the session absent leaves no row behind (an
\* expired row is deleted before the read returns).
C1_ReadReturnsLiveOrDeletes ==
    resp.op \in {"get", "getSession"} =>
        IF resp.status = 200
        THEN /\ resp.sid \in DOMAIN sessions
             /\ sessions[resp.sid].expiresAt >= now
        ELSE resp.sid \notin DOMAIN sessions

\* C2: POST /auth/refresh of a live session s, for every account kind:
\* afterwards s is gone, exactly one new session exists, it belongs to the
\* same account and expires at now + SESSION_DURATION, the account row is
\* still present, and the response carries that expiry with status 200.
C2_RefreshReplacesSession ==
    [][\A s \in DOMAIN sessions :
          (resp'.op = "refresh" /\ resp'.sid = s /\ sessions[s].expiresAt >= now)
          => /\ s \notin DOMAIN sessions'
             /\ DOMAIN sessions' \ DOMAIN sessions = {nextSessionId}
             /\ sessions'[nextSessionId].userId = sessions[s].userId
             /\ sessions'[nextSessionId].expiresAt = now + SESSION_DURATION
             /\ sessions[s].userId \in DOMAIN users'
             /\ resp'.status = 200
             /\ resp'.expiresAt = now + SESSION_DURATION]_vars

\* C3: after a successful POST /auth/refresh of session s, every temporary
\* collection and photo that was tied to s still exists and its expiresAt
\* equals the renewed session's expiresAt.
C3_RefreshKeepsTemporaryContent ==
    [][\A s \in DOMAIN sessions :
          (resp'.op = "refresh" /\ resp'.sid = s /\ resp'.status = 200)
          => /\ \A c \in TemporaryCollectionsOf(Cur, s) :
                    /\ c \in DOMAIN collections'
                    /\ collections'[c].expiresAt = resp'.expiresAt
             /\ \A p \in TemporaryPhotosOf(Cur, s) :
                    /\ p \in DOMAIN photos'
                    /\ photos'[p].expiresAt = resp'.expiresAt]_vars

\* C4: whenever a step renews a session (its row is new or its expiresAt
\* changed), every temporary collection and photo of that session has the
\* session's expiresAt, neither earlier nor later.
C4_RenewalAlignsContent ==
    [][\A s \in DOMAIN sessions' :
          (s \notin DOMAIN sessions \/ sessions'[s].expiresAt # sessions[s].expiresAt)
          => /\ \A c \in DOMAIN collections' :
                    (collections'[c].isTemporary /\ collections'[c].sessionId = s)
                    => collections'[c].expiresAt = sessions'[s].expiresAt
             /\ \A p \in DOMAIN photos' :
                    (photos'[p].isTemporary /\ photos'[p].sessionId = s)
                    => photos'[p].expiresAt = sessions'[s].expiresAt]_vars

\* C5: AuthService.getSession on a live session: with less than
\* SESSION_REFRESH_THRESHOLD remaining it stores expiresAt = now +
\* SESSION_DURATION and returns that value; with at least the threshold
\* remaining the row is unchanged and its expiresAt is returned.
C5_GetSessionRenewsBelowThreshold ==
    [][\A s \in DOMAIN sessions :
          (resp'.op = "getSession" /\ resp'.sid = s /\ sessions[s].expiresAt >= now)
          => /\ resp'.status = 200
             /\ s \in DOMAIN sessions'
             /\ IF sessions[s].expiresAt - now < SESSION_REFRESH_THRESHOLD
                THEN /\ sessions'[s].expiresAt = now + SESSION_DURATION
                     /\ resp'.expiresAt = now + SESSION_DURATION
                ELSE /\ sessions'[s] = sessions[s]
                     /\ resp'.expiresAt = sessions[s].expiresAt]_vars

\* C5 witness: a getSession late in the session's life has just renewed it
C5_Witness ==
    /\ resp.op = "getSession"
    /\ resp.status = 200
    /\ now > SESSION_DURATION - SESSION_REFRESH_THRESHOLD
    /\ resp.expiresAt = now + SESSION_DURATION
    /\ sessions[resp.sid].expiresAt = now + SESSION_DURATION

C7_CleanupsKeepProtected ==
    [][\A c \in PROTECTED_COLLECTION_IDS \cap DOMAIN collections :
          resp'.op # "deleteCollection" => c \in DOMAIN collections']_vars

\* C8: DELETE /collections/:id of an existing protected collection by an
\* authenticated caller, owner or not, is answered 403 and changes no
\* collection, photo or ownership row.
C8_ProtectedDeleteRejected ==
    [][\A c \in PROTECTED_COLLECTION_IDS \cap DOMAIN collections :
          (resp'.op = "deleteCollection" /\ resp'.sid = c /\ resp'.status # 401)
          => /\ resp'.status = 403
             /\ UNCHANGED <<collections, photos, collectionOwners>>]_vars

\* C9: in every reachable state, cleanupTemporaryDemoUser(u, s) for an
\* ephemeral account u with session s ends with u's row gone, s gone, every
\* non-protected collection u owned gone with its photos, every protected
\* collection still there, and no ownership row from u to one of them.
C9_TeardownRemovesAccount ==
    \A s \in DOMAIN sessions :
        isTemporaryDemoUser(sessions[s].username) =>
            LET u == sessions[s].userId
                D == cleanupTemporaryDemoUser(Cur, u, s)
            IN  /\ u \notin DOMAIN D.users
                /\ s \notin DOMAIN D.sessions
                /\ \A c \in OwnedBy(Cur, u) \ PROTECTED_COLLECTION_IDS :
                       c \notin DOMAIN D.collections /\ PhotosIn(D, {c}) = {}
                /\ \A c \in PROTECTED_COLLECTION_IDS \cap DOMAIN collections :
                       c \in DOMAIN D.collections
                /\ \A c \in PROTECTED_COLLECTION_IDS : <<c, u>> \notin D.collectionOwners

\* C10: no step other than the account's own logout deletes an ephemeral
\* account that still has a session whose expiresAt is in the future.
C10_LiveEphemeralAccountKept ==
    [][\A u \in DOMAIN users :
          ( /\ isTemporaryDemoUser(users[u])
            /\ \E s \in DOMAIN sessions :
                   sessions[s].userId = u /\ sessions[s].expiresAt > now
            /\ resp'.op # "logout" )
          => u \in DOMAIN users']_vars

\* C11: in every reachable state, for an ephemeral account u with session s,
\* the teardown paths (the timer's cleanupTemporaryDemoUser(u, s), the
\* deletion of session s, cleanupExpiredDemoUsers) run once, twice or one
\* after another in either order all end in the same state, and in that
\* state u's row, its sessions and its non-protected collections are gone
\* while every protected collection is still there.
C11_TeardownPathsIdempotent ==
    \A s \in DOMAIN sessions :
        isTemporaryDemoUser(sessions[s].username) =>
            LET u == sessions[s].userId
                T(D) == cleanupTemporaryDemoUser(D, u, s)
                L(D) == StoreDelete(D, s)
                E(D) == cleanupExpiredDemoUsers(D, now)
                Gone(D) ==
                    /\ u \notin DOMAIN D.users
                    /\ \A x \in DOMAIN D.sessions : D.sessions[x].userId # u
                    /\ \A c \in OwnedBy(Cur, u) \ PROTECTED_COLLECTION_IDS :
                           c \notin DOMAIN D.collections
                    /\ \A c \in PROTECTED_COLLECTION_IDS \cap DOMAIN collections :
                           c \in DOMAIN D.collections
            IN  /\ \A D \in {L(Cur), T(T(Cur)), T(L(Cur)), L(T(Cur))} : D = T(Cur)
                /\ \A D \in {T(Cur), E(T(Cur)), T(E(Cur))} : Gone(D)

\* C12: a cleanupExpiredDemoUsers() step removes exactly the accounts whose
\* handle starts with 'demo_' and that have no session expiring in the
\* future: an ephemeral account with such a session keeps its row, and so
\* does every account without the prefix.
C12_SweepRemovesExactlyExpiredEphemeral ==
    [][resp'.op = "cleanupExpiredDemoUsers" =>
          \A u \in DOMAIN users :
              (u \in DOMAIN users') <=>
                  ~( /\ isTemporaryDemoUser(users[u])
                     /\ ~\E s \in DOMAIN sessions :
                            sessions[s].userId = u /\ sessions[s].expiresAt > now )]_vars

\* C13: whenever a step removes a session row -- at logout, on the read
\* that finds it expired, or in a periodic sweep of expired sessions -- the
\* owner's account kind decides what goes with it: an ephemeral account's
\* row is gone after the step, and after the removal of a session of the
\* shared 'demo' account no collection outside the protected set is owned
\* by that account.
C13_SessionEndRoutesByAccountKind ==
    [][\A s \in DOMAIN sessions \ DOMAIN sessions' :
          /\ isTemporaryDemoUser(sessions[s].username)
                 => sessions[s].userId \notin DOMAIN users'
          /\ sessions[s].username = DEMO_USERNAME
                 => \A o \in collectionOwners' :
                        o[2] = sessions[s].userId => o[1] \in PROTECTED_COLLECTION_IDS
      ]_vars

\* C14: in every reachable state, DatabaseSessionStore.delete(s) for a
\* session s of the shared 'demo' account leaves every protected collection
\* in place, removes every other collection the account owns together with
\* its photo rows and their blobs, and removes the session row.
C14_DemoSessionDeleteCleansContent ==
    \A s \in DOMAIN sessions :
        sessions[s].username = DEMO_USERNAME =>
            LET u == sessions[s].userId
                D == StoreDelete(Cur, s)
            IN  /\ \A c \in PROTECTED_COLLECTION_IDS \cap DOMAIN collections :
                       c \in DOMAIN D.collections /\ D.collections[c] = collections[c]
                /\ \A c \in OwnedBy(Cur, u) \ PROTECTED_COLLECTION_IDS :
                       /\ c \notin DOMAIN D.collections
                       /\ PhotosIn(D, {c}) = {}
                       /\ PhotosIn(Cur, {c}) \cap D.blobs = {}
                /\ s \notin DOMAIN D.sessions

C16_SessionCleanupsDisjoint ==
    [][\A a \in DOMAIN sessions :
          (resp'.op = "logout" /\ resp'.sid = a) =>
              /\ \A c \in DOMAIN collections :
                     collections[c].sessionId \in DOMAIN sessions' \ {a} =>
                         c \in DOMAIN collections' /\ collections'[c] = collections[c]
              /\ \A p \in DOMAIN photos :
                     photos[p].sessionId \in DOMAIN sessions' \ {a} =>
                         p \in DOMAIN photos' /\ photos'[p] = photos[p]]_vars

\* C17: in every reachable state every collection row and every photo row
\* has isTemporary = true exactly when its sessionId and its expiresAt
\* are both non-null (so isTemporary = false implies both are null).
C17_TemporaryIffSessionAndExpiry ==
    /\ \A c \in DOMAIN collections :
           /\ collections[c].isTemporary <=>
                  (collections[c].sessionId # NULL /\ collections[c].expiresAt # NULL)
           /\ ~collections[c].isTemporary =>
                  (collections[c].sessionId = NULL /\ collections[c].expiresAt = NULL)
    /\ \A p \in DOMAIN photos :
           /\ photos[p].isTemporary <=>
                  (photos[p].sessionId # NULL /\ photos[p].expiresAt # NULL)
           /\ ~photos[p].isTemporary =>
                  (photos[p].sessionId = NULL /\ photos[p].expiresAt = NULL)

\* C18: no step turns a collection or photo row with isTemporary = false
\* into a row with isTemporary = true.
C18_PermanentStaysPermanent ==
    [][/\ \A c \in DOMAIN collections \cap DOMAIN collections' :
              ~collections[c].isTemporary => ~collections'[c].isTemporary
       /\ \A p \in DOMAIN photos \cap DOMAIN photos' :
              ~photos[p].isTemporary => ~photos'[p].isTemporary]_vars

\* C19: in every reachable state and for every id, makeCollectionPermanent(id)
\* and makePhotoPermanent(id) return true exactly when a row with that id
\* exists; then that row ends with isTemporary = false, sessionId = null and
\* expiresAt = null, its other fields and every other row are unchanged,
\* and a second call returns the same and changes nothing more; when no
\* such row exists the call returns false and changes nothing.
C19_MakePermanent ==
    /\ \A id \in 1 .. MaxCollectionId :
           LET r == makeCollectionPermanent(Cur, id)
           IN  /\ r.ok <=> id \in DOMAIN collections
               /\ ~r.ok => r.db = Cur
               /\ r.ok =>
                      /\ ~r.db.collections[id].isTemporary
                      /\ r.db.collections[id].sessionId = NULL
                      /\ r.db.collections[id].expiresAt = NULL
                      /\ r.db.collections[id].userId = collections[id].userId
                      /\ DOMAIN r.db.collections = DOMAIN collections
                      /\ \A c \in DOMAIN collections \ {id} :
                             r.db.collections[c] = collections[c]
                      /\ [r.db EXCEPT !.collections = collections] = Cur
               /\ makeCollectionPermanent(r.db, id) = r
    /\ \A id \in 1 .. MaxPhotoId :
           LET r == makePhotoPermanent(Cur, id)
           IN  /\ r.ok <=> id \in DOMAIN photos
               /\ ~r.ok => r.db = Cur
               /\ r.ok =>
                      /\ ~r.db.photos[id].isTemporary
                      /\ r.db.photos[id].sessionId = NULL
                      /\ r.db.photos[id].expiresAt = NULL
                      /\ r.db.photos[id].collectionId = photos[id].collectionId
                      /\ DOMAIN r.db.photos = DOMAIN photos
                      /\ \A q \in DOMAIN photos \ {id} : r.db.photos[q] = photos[q]
                      /\ [r.db EXCEPT !.photos = photos] = Cur
               /\ makePhotoPermanent(r.db, id) = r

\* a temporary collection holding a temporary photo has just been made
\* permanent through its endpoint while the photo is still temporary, and
\* some collection id has no row
C19_Witness ==
    /\ resp.op = "makeCollectionPermanent"
    /\ resp.status = 200
    /\ \E c \in DOMAIN collections :
           /\ c \notin PROTECTED_COLLECTION_IDS
           /\ ~collections[c].isTemporary
           /\ \E q \in DOMAIN photos :
                  /\ photos[q].collectionId = c
                  /\ photos[q].isTemporary
                  /\ makePhotoPermanent(Cur, q).db # Cur
    /\ \E id \in 1 .. MaxCollectionId : ~makeCollectionPermanent(Cur, id).ok

\* C20: in every reachable state, for every session id s and instant t,
\* getTemporaryContentBySession(s) after extendTemporaryContentExpiration(s, t)
\* returns exactly the collections and photos that were temporary and tied
\* to s, each with expiresAt = t and otherwise as before; every other row
\* (another session's, or permanent) and everything else in storage is
\* unchanged.
C20_ExtendThenGet ==
    \A s \in 1 .. MaxSessionId : \A t \in 0 .. (MaxTime + REFRESH_CONTENT_DURATION) :
        LET D == extendTemporaryContentExpiration(Cur, s, t)
            R == getTemporaryContentBySession(D, s)
            cs == {c \in DOMAIN collections :
                      collections[c].isTemporary /\ collections[c].sessionId = s}
            ps == {p \in DOMAIN photos :
                      photos[p].isTemporary /\ photos[p].sessionId = s}
        IN  /\ DOMAIN R.collections = cs
            /\ DOMAIN R.photos = ps
            /\ \A c \in cs : R.collections[c] = [collections[c] EXCEPT !.expiresAt = t]
            /\ \A p \in ps : R.photos[p] = [photos[p] EXCEPT !.expiresAt = t]
            /\ DOMAIN D.collections = DOMAIN collections
            /\ DOMAIN D.photos = DOMAIN photos
            /\ \A c \in DOMAIN collections \ cs : D.collections[c] = collections[c]
            /\ \A p \in DOMAIN photos \ ps : D.photos[p] = photos[p]
            /\ [D EXCEPT !.collections = collections, !.photos = photos] = Cur

\* two open sessions each have temporary content of their own next to
\* permanent rows, so an extension of one has rows to move and rows to keep
C20_Witness ==
    \E s1, s2 \in DOMAIN sessions :
        /\ s1 # s2
        /\ TemporaryCollectionsOf(Cur, s1) # {}
        /\ TemporaryPhotosOf(Cur, s2) # {}
        /\ \E c \in DOMAIN collections : ~collections[c].isTemporary
        /\ extendTemporaryContentExpiration(Cur, s1, now + REFRESH_CONTENT_DURATION + 1) # Cur
        /\ DOMAIN getTemporaryContentBySession(Cur, s1).collections # {}

\* C21: in every reachable state, cleanExpiredTemporaryContent() leaves no
\* temporary collection whose expiresAt is earlier than now, no photo row
\* and no blob of a photo of such a collection, and no temporary photo
\* whose expiresAt is earlier than now nor its blob; every other collection
\* and every other photo outside those collections stays as it was.
C21_ExpiredContentSwept ==
    LET D == cleanExpiredTemporaryContent(Cur, now)
        cs == {c \in DOMAIN collections :
                  collections[c].isTemporary /\ SqlLt(collections[c].expiresAt, now)}
        ps == {p \in DOMAIN photos :
                  photos[p].isTemporary /\ SqlLt(photos[p].expiresAt, now)}
    IN  /\ \A c \in cs :
               /\ c \notin DOMAIN D.collections
               /\ PhotosIn(D, {c}) = {}
               /\ PhotosIn(Cur, {c}) \cap D.blobs = {}
        /\ \A p \in ps : p \notin DOMAIN D.photos /\ p \notin D.blobs
        /\ \A c \in DOMAIN collections \ cs :
               c \in DOMAIN D.collections /\ D.collections[c] = collections[c]
        /\ \A p \in DOMAIN photos \ (ps \cup PhotosIn(Cur, cs)) :
               p \in DOMAIN D.photos /\ D.photos[p] = photos[p] /\ (p \in blobs => p \in D.blobs)

\* C22: once a logout of session S has been answered, the row of S is gone
\* (a get of S finds nothing) and no temporary collection and no temporary
\* photo with sessionId = S remains, nor the blob of such a photo.
C22_LogoutRemovesSessionContent ==
    [][\A S \in DOMAIN sessions :
          (resp'.op = "logout" /\ resp'.sid = S /\ resp'.status = 200) =>
              /\ S \notin DOMAIN sessions'
              /\ \A c \in DOMAIN collections' :
                     ~(collections'[c].isTemporary /\ collections'[c].sessionId = S)
              /\ \A p \in DOMAIN photos' :
                     ~(photos'[p].isTemporary /\ photos'[p].sessionId = S)
              /\ \A p \in DOMAIN photos :
                     (photos[p].isTemporary /\ photos[p].sessionId = S) => p \notin blobs'
      ]_vars

\* C23: no step removes a photo row and leaves that photo's blob in the
\* blob store (every blob delete of the model succeeds), so no blob is ever
\* without a photo row.
C23_NoOrphanBlob ==
    [][\A p \in DOMAIN photos \ DOMAIN photos' : p \notin blobs']_vars

\* C24: in every reachable state, a demo cleanup or an ephemeral teardown
\* that stops after any one of its steps and is then run again to the end
\* leaves the state one uninterrupted run leaves, and in it none of the
\* non-protected collections the account owned, none of their photos,
\* ownership rows or blobs.
C24_CleanupRerunAfterInterruption ==
    /\ \A u \in DemoUsers : \A k \in 1 .. 3 :
           LET full == cleanupDemoCollectionsAndPhotos(Cur, u).db
               again == cleanupDemoCollectionsAndPhotos(
                            cleanupDemoCollectionsAndPhotosInterrupted(Cur, u, k), u).db
           IN  /\ again = full
               /\ \A c \in OwnedBy(Cur, u) \ PROTECTED_COLLECTION_IDS :
                      /\ c \notin DOMAIN again.collections
                      /\ PhotosIn(again, {c}) = {}
                      /\ \A o \in again.collectionOwners : o[1] # c
                      /\ PhotosIn(Cur, {c}) \cap again.blobs = {}
    /\ \A s \in DOMAIN sessions : \A k \in 1 .. 6 :
           isTemporaryDemoUser(sessions[s].username) =>
               LET u == sessions[s].userId
                   full == cleanupTemporaryDemoUser(Cur, u, s)
                   again == cleanupTemporaryDemoUser(
                                cleanupTemporaryDemoUserInterrupted(Cur, u, s, k), u, s)
               IN  /\ again = full
                   /\ \A c \in OwnedBy(Cur, u) \ PROTECTED_COLLECTION_IDS :
                          /\ c \notin DOMAIN again.collections
                          /\ PhotosIn(again, {c}) = {}
                          /\ \A o \in again.collectionOwners : o[1] # c
                          /\ PhotosIn(Cur, {c}) \cap again.blobs = {}


\* C25: in every reachable state each account appears in at most one
\* partnership row, as user1 or as user2, whatever the interleaving of
\* concurrent acceptPartnershipInvitation calls.
C25_AtMostOnePartnership ==
    \A u \in DOMAIN users :
        Cardinality({q \in partnerships : q[1] = u \/ q[2] = u}) <= 1

\* C27: in every reachable state with a partnership row (a, b) the
\* collections owned by a and the collections owned by b are the same.
C27_PartnersShareOwnership ==
    \A q \in partnerships :
        {o[1] : o \in {x \in collectionOwners : x[2] = q[1]}} =
        {o[1] : o \in {x \in collectionOwners : x[2] = q[2]}}

\* C26: an account that has a partner can neither issue nor accept an
\* invitation, judged in the state in which the call is made:
\* createPartnershipInvitation fails for it, acceptPartnershipInvitation
\* fails when the inviter or the accepter has a partner, a request passes
\* the accept checks only when neither has one, and a failed invite or
\* accept request creates no partnership row, leaves every invitation's
\* status and toUserId as they were and adds no ownership row.
C26_PartneredCannotInviteOrAccept ==
    [][/\ \A u \in DOMAIN users :
             /\ hasPartner(Cur, u) =>
                    createPartnershipInvitation(Cur, now, u) = [ok |-> FALSE, db |-> Cur]
             /\ \A token \in DOMAIN invitations :
                    (hasPartner(Cur, u) \/ hasPartner(Cur, invitations[token].fromUserId))
                    => acceptPartnershipInvitation(Cur, now, token, u)
                           = [ok |-> FALSE, db |-> Cur]
       /\ \A q \in accepting' \ accepting :
             ~hasPartner(Cur, q.fromUserId) /\ ~hasPartner(Cur, q.acceptingUserId)
       /\ (resp'.op \in {"createInvitation", "acceptInvitation"} /\ resp'.status >= 400)
             => /\ partnerships' = partnerships
                /\ invitations' = invitations
                /\ collectionOwners' = collectionOwners
       /\ (resp'.op = "createInvitation" /\ resp'.sid \in DOMAIN sessions
             /\ hasPartner(Cur, sessions[resp'.sid].userId))
             => resp'.status >= 400]_vars

\* a partnered account's accept of a pending, unexpired invitation of
\* another account was refused
C26_Witness ==
    /\ resp.op = "acceptInvitation"
    /\ resp.status = 400
    /\ resp.sid \in DOMAIN sessions
    /\ hasPartner(Cur, sessions[resp.sid].userId)
    /\ \E token \in DOMAIN invitations :
           /\ invitations[token].status = "pending"
           /\ invitations[token].fromUserId # sessions[resp.sid].userId
           /\ ~hasPartner(Cur, invitations[token].fromUserId)
           /\ ~acceptPartnershipInvitation(Cur, now, token, sessions[resp.sid].userId).ok

\* C28: a handler behind requireAuth runs only when the request carries a
\* session id whose session is present and unexpired and whose account
\* exists; with no id, an unknown id, an expired or ended session or a
\* missing account the answer is 401 and the handler does not run (the
\* request changes nothing beyond what requireAuth itself did).
C28_RequireAuthGuardsHandlers ==
    [][/\ \A s \in RequestSessionIds :
             /\ requireAuth(Cur, now, s).status \in {200, 401}
             /\ requireAuth(Cur, now, s).status = 200
                    <=> /\ s \in DOMAIN sessions
                        /\ ~(sessions[s].expiresAt < now)
                        /\ sessions[s].userId \in DOMAIN users
       /\ (/\ resp'.op \in {"getSession", "createCollection"}
           /\ ~(/\ resp'.sid \in DOMAIN sessions
                /\ ~(sessions[resp'.sid].expiresAt < now)
                /\ sessions[resp'.sid].userId \in DOMAIN users))
             => /\ resp'.status = 401
                /\ Cur' = requireAuth(Cur, now, resp'.sid).db
                /\ nextCollectionId' = nextCollectionId]_vars

\* a request with the id of a session that is gone was answered 401 and
\* created nothing
C28_Witness ==
    /\ resp.op = "createCollection"
    /\ resp.status = 401
    /\ resp.sid # NULL
    /\ resp.sid \notin DOMAIN sessions
    /\ nextCollectionId = 7
    /\ DOMAIN collections = {1, 2}

\* C29: the session store fails closed.  A storage error during get is
\* caught and the session reported absent, so the request is answered 401
\* and nothing changes; a storage error during session creation reaches
\* the caller, so the login fails, hands out no session id and stores no
\* session; a login that answers 200 hands out the id of a stored session.
C29_StoreFailsClosed ==
    [][/\ \A s \in RequestSessionIds :
             /\ ~StoreGetE(Cur, now, s, TRUE).session.found
             /\ requireAuthE(Cur, now, s, TRUE).status = 401
       /\ \A u \in DOMAIN users :
             /\ ~createSessionE(Cur, nextSessionId, u, users[u], now, TRUE).ok
             /\ login(Cur, nextSessionId, u, now, TRUE) = [db |-> Cur, sessionId |-> NULL]
       /\ resp'.op = "getSessionStorageError"
             => resp'.status = 401 /\ Cur' = Cur
       /\ resp'.op = "loginStorageError"
             => /\ resp'.status # 200
                /\ resp'.sid = NULL
                /\ sessions' = sessions
                /\ nextSessionId' = nextSessionId
       /\ (resp'.op \in {"login", "loginStorageError"} /\ resp'.status = 200)
             => resp'.sid \in DOMAIN sessions']_vars

\* a login failed on the storage error while another session was live, a
\* session the store reports absent when its read fails
C29_Witness ==
    /\ resp.op = "loginStorageError"
    /\ resp.status = 401
    /\ resp.sid = NULL
    /\ \E s \in DOMAIN sessions :
           /\ StoreGetE(Cur, now, s, FALSE).session.found
           /\ ~StoreGetE(Cur, now, s, TRUE).session.found
           /\ requireAuthE(Cur, now, s, FALSE).status = 200

\* C30: the client enters EXPIRED when the interval finds
\* sessionExpiresAt - now at or below zero and when an auth check is
\* answered 401, and in no other way; entering EXPIRED stops the timers,
\* clears user and remaining time, hides the extension dialog, resets the
\* warning flag and navigates to login; the interval does not fire after
\* EXPIRED until a login has succeeded.
C30_ClientExpired ==
    [][/\ (ClientCountdown /\ CurrentTimeRemaining(client, now) <= 0)
             => client'.last = "countdownExpired" /\ client'.expired
       /\ (ClientCheckAuth /\ \E r \in client.pending \ client'.pending :
                                  r.kind = "me" /\ r.status = 401)
             => client'.last = "auth401" /\ client'.expired
       /\ (client'.expired /\ ~client.expired)
             => client'.last \in {"countdownExpired", "auth401"}
       /\ client'.last \in {"countdownExpired", "auth401"}
             => /\ client'.expired
                /\ ~client'.authCheckIntervalRef
                /\ client'.user = NULL
                /\ client'.sessionTimeRemaining = NULL
                /\ ~client'.showExtensionDialog
                /\ ~client'.warningShownRef
                /\ client'.location = "login"
       /\ ClientCountdown => ~client.expired
       /\ client'.expired => ~client'.authCheckIntervalRef]_vars

\* the countdown of a logged-in client reached zero and EXPIRED was entered
C30_Witness ==
    /\ client.last = "countdownExpired"
    /\ client.expired
    /\ client.cookie # NULL
    /\ now >= SESSION_DURATION
    /\ client.location = "login"
    /\ ~client.authCheckIntervalRef

\* C31: the critical threshold is below the warning threshold and both are
\* below the session duration, CRITICAL implies WARNING, and the renewal
\* dialog is visible from the moment the client enters WARNING (remaining
\* time at or below the warning threshold).
C31_DialogAtWarning ==
    [][/\ CRITICAL_THRESHOLD < WARNING_THRESHOLD
       /\ WARNING_THRESHOLD < SESSION_DURATION
       /\ isCriticalState(client') => isWarningState(client')
       /\ (~isWarningState(client) /\ isWarningState(client'))
             => client'.showExtensionDialog]_vars

\* C32: createTemporaryDemoUser gives the new account an ownership row for
\* every protected collection id that exists at that time and for no other
\* collection, whichever subset of the protected collections exists.
C32_GrantEveryExistingProtected ==
    [][resp'.op = "createTemporaryDemoUser" /\ resp'.status = 201
         => {o[1] : o \in {x \in collectionOwners' : x[2] = nextUserId}}
                = PROTECTED_COLLECTION_IDS \cap DOMAIN collections]_vars

\* C33: a deleted session is never resurrected: once the row of an issued
\* session id is gone, no later step stores a row under that id (so no
\* later get returns a session for it), whatever getSession calls overlap
\* the delete.
C33_NoResurrection ==
    [][\A s \in SessionIds :
          s \notin DOMAIN sessions => s \notin DOMAIN sessions']_vars

\* C34: a periodic sweep run that deletes expired session rows has performed
\* the expired-temporary-content cleanup, blob deletions included, first:
\* whichever timer fired, such a run leaves the database and the blob store
\* as AuthService.cleanExpiredSessions leaves them.
C34_SweepCleansContentFirst ==
    [][(resp'.op \in {"sweepAuth", "sweepStore"} /\ DOMAIN sessions' # DOMAIN sessions)
         => Cur' = AuthCleanExpiredSessions(Cur, now)]_vars

\* C35: in every reachable state, every state a demo cleanup or an
\* ephemeral-account teardown passes through (after none, one, two, three
\* or all four of its content steps) respects the order blobs, photo rows,
\* ownership rows, collection rows: a selected collection's row is gone
\* only when no photo row and no ownership row references it, ownership
\* rows are gone only when every selected photo row is gone, and photo
\* rows are gone only when their blobs are gone.
C35_CleanupStepOrder ==
    LET InOrder(D0, ids, I) ==
            /\ \A c \in ids \ DOMAIN I.collections :
                   /\ PhotosIn(I, {c}) = {}
                   /\ \A o \in I.collectionOwners : o[1] # c
            /\ (\E o \in D0.collectionOwners \ I.collectionOwners : o[1] \in ids)
                   => PhotosIn(I, ids) = {}
            /\ PhotosIn(D0, ids) \ DOMAIN I.photos # {}
                   => PhotosIn(D0, ids) \cap I.blobs = {}
    IN  /\ \A u \in DemoUsers : \A k \in 0 .. 4 :
               InOrder(Cur, OwnedBy(Cur, u) \ PROTECTED_COLLECTION_IDS,
                       cleanupDemoCollectionsAndPhotosInterrupted(Cur, u, k))
        /\ \A s \in DOMAIN sessions : \A k \in 0 .. 4 :
               isTemporaryDemoUser(sessions[s].username) =>
                   InOrder(Cur, OwnedBy(Cur, sessions[s].userId) \ PROTECTED_COLLECTION_IDS,
                           cleanupTemporaryDemoUserInterrupted(Cur, sessions[s].userId, s, k))

\* a demo account or an ephemeral account owns a non-protected collection
\* holding a photo, and the four steps remove the collection
C35_Witness ==
    \/ \E u \in DemoUsers :
           \E c \in OwnedBy(Cur, u) \ PROTECTED_COLLECTION_IDS :
               /\ PhotosIn(Cur, {c}) # {}
               /\ c \notin DOMAIN cleanupDemoCollectionsAndPhotosInterrupted(Cur, u, 4).collections
    \/ \E s \in DOMAIN sessions :
           /\ isTemporaryDemoUser(sessions[s].username)
           /\ \E c \in OwnedBy(Cur, sessions[s].userId) \ PROTECTED_COLLECTION_IDS :
                  /\ PhotosIn(Cur, {c}) # {}
                  /\ c \notin DOMAIN cleanupTemporaryDemoUserInterrupted(
                                         Cur, sessions[s].userId, s, 4).collections

C38_RetryContract ==
    retry.called =>
        LET o == retry.history
            m == retry.maxRetries
            calls == Len(retry.history)
            Transient(e) == e \in {"ETIMEDOUT", "ECONNRESET"}
            Delay(i) == IF 1000 * 2 ^ (i - 1) < 5000 THEN 1000 * 2 ^ (i - 1) ELSE 5000
        IN  /\ ~retry.given => m = 3
            /\ calls \in 0 .. m
            /\ \A i \in 1 .. calls - 1 : Transient(o[i])
            /\ \A i \in 1 .. Len(retry.delays) : retry.delays[i] = Delay(i)
            /\ retry.status = "running" =>
                   /\ calls < m \/ m < 1
                   /\ Len(retry.delays) = calls
                   /\ \A i \in 1 .. calls : Transient(o[i])
            /\ retry.status = "returned" =>
                   /\ calls >= 1 /\ o[calls] = "ok" /\ retry.value = calls
                   /\ Len(retry.delays) = calls - 1
            /\ (retry.status = "thrown" /\ m >= 1) =>
                   /\ calls >= 1
                   /\ retry.value = o[calls]
                   /\ retry.value # "ok"
                   /\ Transient(retry.value) => calls = m
                   /\ Len(retry.delays) = calls - 1
            /\ (m >= 1 /\ calls >= 1 /\ o[1] = "other") =>
                   retry.status = "thrown" /\ calls = 1

\* the argument left out, two connection errors, then a success: the
\* third invocation's result is returned after waits of 1000 and 2000 ms
C38_Witness ==
    /\ retry.called
    /\ ~retry.given
    /\ retry.history = <<"ETIMEDOUT", "ECONNRESET", "ok">>
    /\ retry.delays = <<1000, 2000>>
    /\ retry.status = "returned"
    /\ retry.value = 3

\* C39: with the periodic sweeps running for ever, a session row whose
\* expiresAt has passed is eventually removed, and so is every temporary
\* collection and every temporary photo whose expiresAt has passed.
C39_ExpiredEventuallyRemoved ==
    /\ \A s \in 1 .. MaxSessionId :
           (s \in DOMAIN sessions /\ sessions[s].expiresAt < now)
               ~> (s \notin DOMAIN sessions)
    /\ \A c \in (1 .. MaxCollectionId) \ PROTECTED_COLLECTION_IDS :
           (/\ c \in DOMAIN collections
            /\ collections[c].isTemporary
            /\ SqlLt(collections[c].expiresAt, now))
               ~> (c \notin DOMAIN collections)
    /\ \A p \in 1 .. MaxPhotoId :
           (/\ p \in DOMAIN photos
            /\ photos[p].isTemporary
            /\ SqlLt(photos[p].expiresAt, now))
               ~> (p \notin DOMAIN photos)

\* C40: an account has at most one pending invitation it issued:
\* createPartnershipInvitation fails and inserts no row when the sender already
\* has a pending invitation, and no reachable state, those produced by two
\* interleaved invite requests of one account included, holds two pending
\* invitations of the same sender.
C40_AtMostOnePendingInvitation ==
    \A u \in DOMAIN users :
        LET pending == {i \in DOMAIN invitations :
                           /\ invitations[i].fromUserId = u
                           /\ invitations[i].status = "pending"}
        IN  /\ Cardinality(pending) <= 1
            /\ pending # {} =>
                   createPartnershipInvitation(Cur, now, u) = [ok |-> FALSE, db |-> Cur]

====
